---- MODULE Spec2Model ----
(***************************************************************************)
(* Kope-Quest: the turn-based combat engine of the Telegram RPG bot.       *)
(*                                                                         *)
(* game_logic.py  combat math, the combatant classes, the action resolver  *)
(* main.py        the PvP challenge/join/battle handlers and the two       *)
(*                in-memory registries active_battles, active_challenges   *)
(* database.py    the player store (one row per user id)                   *)
(*                                                                         *)
(* Numbers that the code keeps as floats are kept exact here: an element   *)
(* multiplier is held in tenths (1.5 -> 15), the damage variance in        *)
(* hundredths (0.8 -> 80), and int() of a non-negative product is the      *)
(* integer division of the scaled product.                                 *)
(***************************************************************************)
EXTENDS Integers, Sequences, FiniteSets, TLC

VARIABLES
    arena,            \* SpecBattle: the two combatant objects handed to execute_battle_action
    result,           \* SpecBattle: what the last execute_battle_action call did and returned
    db,               \* database.py: players table, user id -> row (NoRow: no character)
    active_challenges,\* main.py:41  challenge code -> challenge (NoChallenge: key absent)
    battles,          \* the battle dict objects created by join_command, by battle number
    active_battles,   \* main.py:40  the battle numbers whose id is a key of the registry
    handlers,         \* the update handlers in flight: position and locals of each
    now,              \* datetime.now(), in minutes
    reply,            \* the last reply a finished handler sent to its user
    ghost             \* history: per battle, what was observed of it (never read by the code)

vars == <<arena, result, db, active_challenges, battles, active_battles, handlers, now,
         reply, ghost>>

-----------------------------------------------------------------------------
(* Bounds of the model *)

\* the turn holder's submissions are followed while turn_count is below this
MaxTurns == 3
\* the same, in the behaviours where handlers interleave
RaceTurns == 2
\* SpecLimit follows a battle this many turns past Config's turn limit
TurnsPastLimit == 1
\* SpecChallenge follows the clock for this many minutes
MaxTime == 6
\* SpecCrit draws the attacker's agility from 0 to this
MaxAgility == 2000

-----------------------------------------------------------------------------
(* Small helpers *)

Max(a, b) == IF a >= b THEN a ELSE b
Min(a, b) == IF a <= b THEN a ELSE b

-----------------------------------------------------------------------------
(* game_logic.py: element table and combat math *)

\* GameLogic.element_effectiveness, multipliers in tenths
ElementEffectiveness ==
    [ Fire      |-> [Ice |-> 15, Earth |-> 8, Water |-> 8],
      Ice       |-> [Water |-> 15, Fire |-> 8, Lightning |-> 8],
      Lightning |-> [Water |-> 15, Ice |-> 8, Earth |-> 15],
      Water     |-> [Fire |-> 15, Lightning |-> 8, Wind |-> 8],
      Earth     |-> [Lightning |-> 15, Wind |-> 15, Fire |-> 8],
      Wind      |-> [Earth |-> 8, Shadow |-> 15, Water |-> 15],
      Shadow    |-> [Light |-> 15, Wind |-> 8, Fire |-> 12],
      Light     |-> [Shadow |-> 15, Fire |-> 12, Ice |-> 12] ]

\* dict.get(defender_element, 1.0) on the attacker's row, 1.0 when there is no row
get_element_effectiveness(attacker_element, defender_element) ==
    IF attacker_element \in DOMAIN ElementEffectiveness
    THEN IF defender_element \in DOMAIN ElementEffectiveness[attacker_element]
         THEN ElementEffectiveness[attacker_element][defender_element]
         ELSE 10
    ELSE 10

\* values random.uniform(0.8, 1.2) is sampled at, in hundredths
Variances == {80, 120}

\* the damage without the final floor at 1
calculate_damage_unfloored(attacker, defender, action, is_critical, variance) ==
    IF action \notin {"attack", "element"} THEN 0
    ELSE LET base_damage == IF action = "attack" THEN attacker.attack
                            ELSE attacker.element_power
             halves == Max(2, 2 * base_damage - defender.defense)
             eff == IF action = "element"
                    THEN get_element_effectiveness(attacker.element, defender.element)
                    ELSE 10
             crit == IF is_critical THEN 15 ELSE 10
         IN (halves * eff * variance * crit) \div 20000

\* max(1, int(max(1, base - defense*0.5) * effectiveness * variance * crit)); 0 for
\* an action that is neither attack nor element
calculate_damage(attacker, defender, action, is_critical, variance) ==
    IF action \notin {"attack", "element"} THEN 0
    ELSE LET base_damage == IF action = "attack" THEN attacker.attack
                            ELSE attacker.element_power
             \* max(1, base - defense * 0.5), in halves
             halves == Max(2, 2 * base_damage - defender.defense)
             eff == IF action = "element"
                    THEN get_element_effectiveness(attacker.element, defender.element)
                    ELSE 10
             crit == IF is_critical THEN 15 ELSE 10
         IN Max(1, (halves * eff * variance * crit) \div 20000)

-----------------------------------------------------------------------------
(* game_logic.py: the combatant classes *)

\* Player.is_alive / NPC.is_alive
is_alive(c) == c.hp > 0

\* a stamina check that lets every element skill through
can_use_element_skill_always(c) == TRUE

\* Player.can_use_element_skill / NPC.can_use_element_skill
can_use_element_skill(c) == c.stamina >= 15

\* a heal check that does not look at the stamina
can_heal_any_stamina(c) == c.hp < c.max_hp

\* Player.can_heal / NPC.can_heal
can_heal(c) == c.stamina >= 10 /\ c.hp < c.max_hp

\* hasattr(actor, 'user_id'): a Player carries a user id, an NPC does not
has_user_id(c) == c.kind = "player"

\* c.name if hasattr(c, 'name') else c.username evaluates: an NPC has a name, a
\* Player a username; an object of kind "nameless" has neither (AttributeError)
has_name(c) == c.kind \in {"player", "npc"}

\* the winner field execute_battle_action returns when nobody was defeated (None)
NoWinner == "none"

\* a hit that forgets the floor at 0
damage_applied_unclamped(target, damage) ==
    [target EXCEPT !.hp = target.hp - damage]

\* target.hp = max(0, target.hp - damage)
damage_applied(target, damage) ==
    [target EXCEPT !.hp = Max(0, target.hp - damage)]

\* a defend that restores a flat 5 stamina
defend_applied_flat(actor) ==
    [actor EXCEPT !.stamina = actor.stamina + 5]

\* the defend branch: stamina_restore = min(5, max_stamina - stamina), added under a cap
defend_applied(actor) ==
    LET stamina_restore == Min(5, actor.max_stamina - actor.stamina)
    IN [actor EXCEPT !.stamina = Min(actor.max_stamina, actor.stamina + stamina_restore)]

\* a heal that always fills the hp
heal_applied_full(actor) ==
    [actor EXCEPT !.hp = actor.max_hp, !.stamina = Max(0, actor.stamina - 10)]

\* the heal branch when can_heal(): heal_amount = min(level*8 + 15, max_hp - hp), cost 10
heal_applied(actor) ==
    LET heal_amount == Min(actor.level * 8 + 15, actor.max_hp - actor.hp)
    IN [actor EXCEPT !.hp = Min(actor.max_hp, actor.hp + heal_amount),
                     !.stamina = Max(0, actor.stamina - 10)]

\* an element skill that costs 10 stamina
element_cost_applied_cheap(actor) ==
    [actor EXCEPT !.stamina = Max(0, actor.stamina - 10)]

\* the element branch when can_use_element_skill(): stamina cost 15
element_cost_applied(actor) ==
    [actor EXCEPT !.stamina = Max(0, actor.stamina - 15)]

\* winner = 'player' if hasattr(actor, 'user_id') else 'npc', set when the target is dead
winner_label(actor) == IF has_user_id(actor) THEN "player" ELSE "npc"

\* the except branch of execute_battle_action (game_logic.py:267-273): the generic
\* log and winner None are returned; the objects keep what the try block had
\* already assigned to them
failed_action(actor, target, after) ==
    [actor  |-> after.actor,
     target |-> after.target,
     log    |-> [text |-> "error", defeated |-> FALSE],
     winner |-> NoWinner]

\* GameLogic.execute_battle_action: the actor and target objects after the call, the
\* log line (its kind, and whether the "has been defeated" suffix was appended) and
\* the winner. An action name with no branch falls through with an empty log line.
\* Every branch assigns hp and stamina first and formats its log line from the actor's
\* name afterwards; the defeat check formats the target's name after setting winner.
execute_battle_action(actor, target, action, is_critical, variance) ==
    LET damage == calculate_damage(actor, target, action, is_critical, variance)
        after ==
            CASE action = "attack" ->
                    [actor |-> actor, target |-> damage_applied(target, damage),
                     text |-> "attacks"]
              [] action = "defend" ->
                    [actor |-> defend_applied(actor), target |-> target,
                     text |-> "defends"]
              [] action = "heal" ->
                    IF can_heal(actor)
                    THEN [actor |-> heal_applied(actor), target |-> target,
                          text |-> "heals"]
                    ELSE [actor |-> actor, target |-> target, text |-> "cannot heal"]
              [] action = "element" ->
                    IF can_use_element_skill(actor)
                    THEN [actor |-> element_cost_applied(actor),
                          target |-> damage_applied(target, damage),
                          text |-> "uses element skill"]
                    ELSE [actor |-> actor, target |-> target,
                          text |-> "not enough stamina"]
              [] OTHER ->
                    [actor |-> actor, target |-> target, text |-> ""]
        defeated == ~is_alive(after.target)
    IN IF (action \in {"attack", "defend", "heal", "element"} /\ ~has_name(actor))
          \/ (defeated /\ ~has_name(target))
       THEN failed_action(actor, target, after)
       ELSE [actor  |-> after.actor,
             target |-> after.target,
             log    |-> [text |-> after.text, defeated |-> defeated],
             winner |-> IF defeated THEN winner_label(actor) ELSE NoWinner]

\* the action names the battle keyboards offer, and one that no branch handles
Actions == {"attack", "defend", "heal", "element"}
UnknownAction == "dance"

-----------------------------------------------------------------------------
(* The player store, the registries and the handlers: data *)

\* Telegram user ids: 1 and 2 have a character, 3 has never used /start
Users == {1, 2, 3}
\* challenge codes random.choices can draw
Codes == {"AAAAAA", "BBBBBB"}
\* update handlers that can be in flight at once
Procs == {"h1", "h2"}
\* the battle dict objects join_command can create, numbered in creation order
BattleNos == {1, 2}

\* Python's None: a missing row, a missing key, an unset local
None == [none |-> TRUE]

\* last_daily_claim of a row that never claimed (NULL); the days are numbered from 1
NoDay == 0

\* database.py:27-48, the column defaults of a row made by create_player
create_player(user_id, element) ==
    [user_id |-> user_id, element |-> element, level |-> 1, experience |-> 0,
     hp |-> 100, max_hp |-> 100, stamina |-> 50, max_stamina |-> 50,
     attack |-> 25, defense |-> 20, agility |-> 15, element_power |-> 30,
     coins |-> 100, battles_won |-> 0, battles_lost |-> 0,
     last_daily_claim |-> NoDay, daily_streak |-> 0]

\* Player.__init__: the combatant built from a row
Player(player_data) ==
    [kind |-> "player", user_id |-> player_data.user_id,
     element |-> player_data.element, level |-> player_data.level,
     hp |-> player_data.hp, max_hp |-> player_data.max_hp,
     stamina |-> player_data.stamina, max_stamina |-> player_data.max_stamina,
     attack |-> player_data.attack, defense |-> player_data.defense,
     agility |-> player_data.agility, element_power |-> player_data.element_power]

\* stored hp values a character starts a behaviour with: full, and after two PvP losses
InitHp == {25, 100}

\* a handler that is not running
IdleHandler ==
    [pc |-> "idle", user |-> 0, action |-> "", battle |-> 0, code |-> "",
     challenger_id |-> 0, p1_data |-> None, cur_hp |-> 0, cur_stamina |-> 0,
     opp_hp |-> 0, winner |-> NoWinner, winner_id |-> 0, loser_id |-> 0,
     winner_data |-> None, loser_data |-> None]

\* ended: battles whose handle_pvp_battle_end returned; last_actor: who acted last in
\* a battle; consumed: codes whose current challenge a join has turned into a battle
InitGhost ==
    [ended |-> {}, last_actor |-> [b \in BattleNos |-> 0], consumed |-> {}]

\* the registries are empty at construction (main.py:40-41); the store holds the
\* characters of users 1 and 2
InitStore ==
    /\ db \in { f \in [Users -> {None} \cup
                          { [create_player(u, e) EXCEPT !.hp = h] :
                              u \in {1, 2}, e \in {"Fire", "Ice"}, h \in InitHp }] :
                  /\ f[3] = None
                  /\ f[1] # None /\ f[1].user_id = 1 /\ f[1].element = "Fire"
                  /\ f[2] # None /\ f[2].user_id = 2 /\ f[2].element = "Ice" }
    /\ active_challenges = [c \in Codes |-> None]
    /\ battles = [b \in BattleNos |-> None]
    /\ active_battles = {}
    /\ handlers = [h \in Procs |-> IdleHandler]
    /\ now = 0
    /\ reply = ""
    /\ ghost = InitGhost

-----------------------------------------------------------------------------
(* database.py: reads and writes of the players table *)

\* Database.get_player: the row, or None when there is none or the query raised
get_player(user_id, ok) == IF ok THEN db[user_id] ELSE None

\* Database.update_player_stats on store d: UPDATE players SET ... WHERE user_id = ?;
\* the columns named in stats are overwritten, a raised error is swallowed
update_player_stats(d, user_id, stats, ok) ==
    IF ok /\ d[user_id] # None
    THEN [d EXCEPT ![user_id] =
             [f \in DOMAIN d[user_id] |->
                 IF f \in DOMAIN stats THEN stats[f] ELSE d[user_id][f]]]
    ELSE d

-----------------------------------------------------------------------------
(* main.py: challenge_command and join_command *)

\* timedelta(minutes=5) of challenge_command
ChallengeMinutes == 5
\* battle dicts created so far; the next one gets the next number. A battle id
\* f"pvp_{challenger}_{joiner}_{timestamp}" is taken to be unique to its battle.
NumCreated == Cardinality({b \in BattleNos : battles[b] # None})

\* handler h returns after sending outcome to its user
Finish(h, outcome) ==
    /\ handlers' = [handlers EXCEPT ![h] = IdleHandler]
    /\ reply' = outcome

\* handler h suspends at its next await with locals loc
Suspend(h, loc) ==
    /\ handlers' = [handlers EXCEPT ![h] = loc]
    /\ UNCHANGED reply

\* challenge_command: a character with hp > 0 stores a challenge under a drawn code
Challenge(user_id, challenge_code, ok) ==
    LET player_data == get_player(user_id, ok)
    IN /\ player_data # None
       /\ player_data.hp > 0
       /\ active_challenges' =
             [active_challenges EXCEPT ![challenge_code] =
                 [challenger_id |-> user_id, created_at |-> now,
                  expires_at |-> now + ChallengeMinutes]]
       /\ reply' = "challenge_created"
       /\ ghost' = [ghost EXCEPT !.consumed = @ \ {challenge_code}]
       /\ UNCHANGED <<arena, result, db, battles, active_battles, handlers, now>>

\* a join that lets the challenger join the own challenge
is_self_challenge_never(user_id, challenger_id) == FALSE

\* if user_id == challenger_id: "You cannot challenge yourself!"
is_self_challenge(user_id, challenger_id) == user_id = challenger_id

\* an expiry check that never fires
is_expired_never(challenge, t) == FALSE

\* if datetime.now() > challenge['expires_at']
is_expired(challenge, t) == t > challenge.expires_at

\* a rejected join that deletes the challenge it was sent for
challenges_after_rejection_dropped(challenge_code) ==
    [active_challenges EXCEPT ![challenge_code] = None]

\* the challenge registry after an early return of join_command other than the expiry
\* one: none of them executes a del
challenges_after_rejection(challenge_code) == active_challenges

\* join_command up to its second store read: the joiner's row, the code, the expiry
\* and the self-challenge checks
JoinCheck(h, user_id, challenge_code, ok) ==
    LET player_data == get_player(user_id, ok)
        challenge == active_challenges[challenge_code]
    IN /\ handlers[h].pc = "idle"
       /\ IF player_data = None
          THEN /\ Finish(h, "no_character")
               /\ active_challenges' = challenges_after_rejection(challenge_code)
          ELSE IF player_data.hp <= 0
          THEN /\ Finish(h, "heal_first")
               /\ active_challenges' = challenges_after_rejection(challenge_code)
          ELSE IF challenge = None
          THEN /\ Finish(h, "invalid_code")
               /\ active_challenges' = challenges_after_rejection(challenge_code)
          ELSE IF is_expired(challenge, now)
          THEN /\ active_challenges' = [active_challenges EXCEPT ![challenge_code] = None]
               /\ Finish(h, "expired")
          ELSE IF is_self_challenge(user_id, challenge.challenger_id)
          THEN /\ Finish(h, "self_challenge")
               /\ active_challenges' = challenges_after_rejection(challenge_code)
          ELSE /\ Suspend(h, [IdleHandler EXCEPT
                                 !.pc = "join_get_challenger",
                                 !.user = user_id,
                                 !.code = challenge_code,
                                 !.challenger_id = challenge.challenger_id])
               /\ UNCHANGED active_challenges
       /\ UNCHANGED <<arena, result, db, battles, active_battles, now, ghost>>

\* the battle dict join_command stores (main.py:378-385)
new_battle(challenger_id, user_id) ==
    [type |-> "pvp", player1_id |-> challenger_id, player2_id |-> user_id,
     current_turn |-> challenger_id, turn_count |-> 1, battle_log |-> <<>>]

\* join_command from its second store read: the challenger's row is checked, the
\* battle is stored, then the challenge is deleted (a KeyError when it is already
\* gone, which the handler's except turns into the error reply)
JoinCreate(h, ok) ==
    LET me == handlers[h]
        challenger_data == get_player(me.challenger_id, ok)
        b == NumCreated + 1
    IN /\ me.pc = "join_get_challenger"
       /\ IF challenger_data = None \/ challenger_data.hp <= 0
          THEN /\ Finish(h, "challenger_unavailable")
               /\ active_challenges' = challenges_after_rejection(me.code)
               /\ UNCHANGED <<battles, active_battles>>
          ELSE /\ battles' = [battles EXCEPT ![b] = new_battle(me.challenger_id, me.user)]
               /\ active_battles' = active_battles \cup {b}
               /\ IF active_challenges[me.code] # None
                  THEN /\ active_challenges' = [active_challenges EXCEPT ![me.code] = None]
                       /\ Finish(h, "battle_started")
                  ELSE /\ UNCHANGED active_challenges
                       /\ Finish(h, "error")
       /\ ghost' = IF battles' # battles
                   THEN [ghost EXCEPT !.consumed = @ \cup {me.code}]
                   ELSE ghost
       /\ UNCHANGED <<arena, result, db, now>>

-----------------------------------------------------------------------------
(* main.py: handle_pvp_action and handle_pvp_battle_end *)
(* One action per stretch of code between two awaits that touch the store or    *)
(* the registries; the handler's locals live in handlers[h]. The battle local   *)
(* is a reference to the dict object battles[b], which outlives its registry    *)
(* key. Messages to the players change no state and are not modelled, except    *)
(* as the suspension point before the registry key is deleted.                  *)

\* if battle_id not in self.active_battles
battle_found(battle_id) == battle_id \in active_battles

\* a turn check that lets either participant through
is_turn_holder_any(battle, user_id) == user_id \in {battle.player1_id, battle.player2_id}

\* if battle['current_turn'] != user_id: "It's not your turn!"
is_turn_holder(battle, user_id) == battle.current_turn = user_id

\* handle_pvp_action up to its first store read: the registry and the turn checks
PvpCheck(h, user_id, action, battle_id) ==
    /\ handlers[h].pc = "idle"
    /\ IF ~battle_found(battle_id)
       THEN Finish(h, "not_found")
       ELSE IF ~is_turn_holder(battles[battle_id], user_id)
       THEN Finish(h, "not_your_turn")
       ELSE Suspend(h, [IdleHandler EXCEPT !.pc = "get_p1", !.user = user_id,
                                           !.action = action, !.battle = battle_id])
    /\ UNCHANGED <<arena, result, db, active_challenges, battles, active_battles,
                   now, ghost>>

\* player1_data = await self.db.get_player(battle['player1_id'])
PvpGetP1(h, ok) ==
    LET me == handlers[h]
    IN /\ me.pc = "get_p1"
       /\ Suspend(h, [me EXCEPT !.pc = "get_p2",
                                !.p1_data = get_player(battles[me.battle].player1_id, ok)])
       /\ UNCHANGED <<arena, result, db, active_challenges, battles, active_battles,
                      now, ghost>>

\* player2_data = await ...; the two Player objects are built (a TypeError on a None
\* row, caught by the handler); execute_battle_action runs without suspending and its
\* log line is appended to the battle's log
PvpExecute(h, ok, is_critical, variance) ==
    LET me == handlers[h]
        battle == battles[me.battle]
        player1_data == me.p1_data
        player2_data == get_player(battle.player2_id, ok)
        first == me.user = battle.player1_id
        current_player == Player(IF first THEN player1_data ELSE player2_data)
        opponent == Player(IF first THEN player2_data ELSE player1_data)
        r == execute_battle_action(current_player, opponent, me.action,
                                   is_critical, variance)
    IN /\ me.pc = "get_p2"
       /\ IF player1_data = None \/ player2_data = None
          THEN /\ Finish(h, "error")
               /\ UNCHANGED <<battles, ghost>>
          ELSE /\ battles' = [battles EXCEPT ![me.battle].battle_log = Append(@, r.log)]
               /\ Suspend(h, [me EXCEPT !.pc = "update", !.p1_data = None,
                                        !.cur_hp = r.actor.hp,
                                        !.cur_stamina = r.actor.stamina,
                                        !.opp_hp = r.target.hp, !.winner = r.winner])
               /\ ghost' = [ghost EXCEPT !.last_actor[me.battle] = me.user]
       /\ UNCHANGED <<arena, result, db, active_challenges, active_battles, now>>

\* a turn switch that always hands the turn to player 2
next_turn_stuck(battle) == battle.player2_id

\* battle['current_turn'] = the other participant
next_turn(battle) ==
    IF battle.current_turn = battle.player1_id THEN battle.player2_id
    ELSE battle.player1_id

\* winner_id = battle['player1_id'] if result['winner'] == 'player' else battle['player2_id']
winner_of(battle, winner) ==
    IF winner = "player" THEN battle.player1_id ELSE battle.player2_id

\* loser_id = battle['player2_id'] if winner_id == battle['player1_id'] else battle['player1_id']
loser_of(battle, winner_id) ==
    IF winner_id = battle.player1_id THEN battle.player2_id ELSE battle.player1_id

\* await update_player_stats(current_player.user_id, {hp, stamina}); then either
\* handle_pvp_battle_end starts (its registry lookup raises KeyError when the key is
\* gone) or the turn is switched and update_pvp_battle_status looks the battle up
PvpUpdate(h, ok) ==
    LET me == handlers[h]
        battle == battles[me.battle]
    IN /\ me.pc = "update"
       /\ db' = update_player_stats(db, me.user,
                    [hp |-> me.cur_hp, stamina |-> me.cur_stamina], ok)
       /\ IF me.winner # NoWinner
          THEN /\ UNCHANGED battles
               /\ IF ~battle_found(me.battle)
                  THEN Finish(h, "error")
                  ELSE Suspend(h, [me EXCEPT
                          !.pc = "end_get_winner",
                          !.winner_id = winner_of(battle, me.winner),
                          !.loser_id = loser_of(battle, winner_of(battle, me.winner))])
          ELSE /\ battles' = [battles EXCEPT
                     ![me.battle].current_turn = next_turn(battle),
                     ![me.battle].turn_count = @ + 1]
               /\ IF ~battle_found(me.battle)
                  THEN Finish(h, "error")
                  ELSE Finish(h, "applied")
       /\ UNCHANGED <<arena, result, active_challenges, active_battles, now, ghost>>

\* winner_data = await self.db.get_player(winner_id)
PvpEndGetWinner(h, ok) ==
    LET me == handlers[h]
    IN /\ me.pc = "end_get_winner"
       /\ Suspend(h, [me EXCEPT !.pc = "end_get_loser",
                                !.winner_data = get_player(me.winner_id, ok)])
       /\ UNCHANGED <<arena, result, db, active_challenges, battles, active_battles,
                      now, ghost>>

\* loser_data = await self.db.get_player(loser_id); the rewards are computed from the
\* two rows (a TypeError on a None row)
PvpEndGetLoser(h, ok) ==
    LET me == handlers[h]
        loser_data == get_player(me.loser_id, ok)
    IN /\ me.pc = "end_get_loser"
       /\ IF loser_data = None \/ me.winner_data = None
          THEN Finish(h, "error")
          ELSE Suspend(h, [me EXCEPT !.pc = "end_update_winner",
                                     !.loser_data = loser_data])
       /\ UNCHANGED <<arena, result, db, active_challenges, battles, active_battles,
                      now, ghost>>

\* the winner's columns written by handle_pvp_battle_end (main.py:907-914)
winner_stats(winner_data, loser_data) ==
    [battles_won |-> winner_data.battles_won + 1,
     experience  |-> winner_data.experience + loser_data.level * 30,
     coins       |-> winner_data.coins + loser_data.level * 15]

\* the loser's columns with a plain integer halving of the hp
loser_stats_unfloored(loser_data) ==
    [battles_lost |-> loser_data.battles_lost + 1,
     hp           |-> loser_data.hp \div 2]

\* the loser's columns written by handle_pvp_battle_end (main.py:916-919)
loser_stats(loser_data) ==
    [battles_lost |-> loser_data.battles_lost + 1,
     hp           |-> Max(1, loser_data.hp \div 2)]

\* await update_player_stats(winner_id, ...)
PvpEndUpdateWinner(h, ok) ==
    LET me == handlers[h]
    IN /\ me.pc = "end_update_winner"
       /\ db' = update_player_stats(db, me.winner_id,
                    winner_stats(me.winner_data, me.loser_data), ok)
       /\ Suspend(h, [me EXCEPT !.pc = "end_update_loser", !.winner_data = None])
       /\ UNCHANGED <<arena, result, active_challenges, battles, active_battles,
                      now, ghost>>

\* await update_player_stats(loser_id, ...)
PvpEndUpdateLoser(h, ok) ==
    LET me == handlers[h]
    IN /\ me.pc = "end_update_loser"
       /\ db' = update_player_stats(db, me.loser_id, loser_stats(me.loser_data), ok)
       /\ Suspend(h, [me EXCEPT !.pc = "end_cleanup", !.loser_data = None])
       /\ UNCHANGED <<arena, result, active_challenges, battles, active_battles,
                      now, ghost>>

\* a cleanup that leaves the registry key in place
evict_nothing(battle_id) == active_battles

\* del self.active_battles[battle_id]
evict(battle_id) == active_battles \ {battle_id}

\* after the two end messages: the registry key is deleted (KeyError when it is
\* already gone); ghost.ended records that handle_pvp_battle_end returned
PvpEndCleanup(h) ==
    LET me == handlers[h]
    IN /\ me.pc = "end_cleanup"
       /\ IF battle_found(me.battle)
          THEN /\ active_battles' = evict(me.battle)
               /\ ghost' = [ghost EXCEPT !.ended = @ \cup {me.battle}]
               /\ Finish(h, "ended")
          ELSE /\ UNCHANGED <<active_battles, ghost>>
               /\ Finish(h, "error")
       /\ UNCHANGED <<arena, result, db, active_challenges, battles, now>>

-----------------------------------------------------------------------------
(* Spec: the registries and the store under concurrent handlers *)

Init ==
    /\ arena = [i \in {1, 2} |-> None]
    /\ result = None
    /\ InitStore

\* the store answers every query (no raised error)
StoreOk == {TRUE}

\* the steps a running handler h takes, each store call answering with one of oks
HandlerStepWith(h, oks) ==
    \/ \E ok \in oks : JoinCreate(h, ok)
    \/ \E ok \in oks : PvpGetP1(h, ok)
    \/ \E ok \in oks, is_critical \in BOOLEAN, variance \in Variances :
          PvpExecute(h, ok, is_critical, variance)
    \/ \E ok \in oks : PvpUpdate(h, ok)
    \/ \E ok \in oks : PvpEndGetWinner(h, ok)
    \/ \E ok \in oks : PvpEndGetLoser(h, ok)
    \/ \E ok \in oks : PvpEndUpdateWinner(h, ok)
    \/ \E ok \in oks : PvpEndUpdateLoser(h, ok)
    \/ PvpEndCleanup(h)

\* the steps a running handler h takes
HandlerStep(h) == HandlerStepWith(h, StoreOk)

\* the code of the one challenge these behaviours follow into its battle
BattleCodes == {"AAAAAA"}
\* and the number that battle gets
FollowedBattles == {1}

\* fewer than n battles exist or are about to be created by a join in flight
FewerBattlesThan(n) ==
    NumCreated + Cardinality({g \in Procs : handlers[g].pc = "join_get_challenger"}) < n

\* a /challenge update, followed while no battle exists yet
ChallengeStart ==
    \E u \in Users, c \in BattleCodes, ok \in StoreOk :
        NumCreated < 1 /\ Challenge(u, c, ok)

\* a /join update starts handler h; these behaviours follow one challenge into its battle
JoinStart(h) ==
    \E u \in Users, c \in BattleCodes, ok \in StoreOk :
        FewerBattlesThan(1) /\ JoinCheck(h, u, c, ok)

\* the turn holder's submission for battle b is followed while fewer than n turns
\* have begun
TurnsBelow(b, u, n) ==
    (battle_found(b) /\ is_turn_holder(battles[b], u)) =>
        /\ battles[b].turn_count < n
        /\ Len(battles[b].battle_log) < n

\* a pvp_<action>_<battle id> callback starts handler h
PvpStart(h) ==
    \E u \in Users, a \in Actions \cup {UnknownAction}, b \in FollowedBattles :
        TurnsBelow(b, u, MaxTurns) /\ PvpCheck(h, u, a, b)

\* the same while the battle is in its first RaceTurns - 1 turns
PvpRaceStart(h) ==
    \E u \in Users, a \in Actions \cup {UnknownAction}, b \in FollowedBattles :
        /\ TurnsBelow(b, u, MaxTurns)
        /\ (battle_found(b) /\ is_turn_holder(battles[b], u)) =>
              battles[b].turn_count < RaceTurns
        /\ PvpCheck(h, u, a, b)

\* handlers interleave at their awaits
Next ==
    \/ ChallengeStart
    \/ JoinStart("h1")
    \/ \E h \in Procs : PvpRaceStart(h)
    \/ \E h \in Procs : HandlerStep(h)

Spec == Init /\ [][Next]_vars

\* stored stamina a character starts a behaviour with: full, and what three element
\* skills of an earlier battle leave (50 - 3 * 15)
InitStamina == {5, 50}

\* as Init, with either stamina for each character
InitSeq ==
    /\ arena = [i \in {1, 2} |-> None]
    /\ result = None
    /\ db \in { [u \in Users |->
                   IF u = 3 THEN None
                   ELSE [create_player(u, IF u = 1 THEN "Fire" ELSE "Ice")
                            EXCEPT !.hp = hp[u], !.stamina = st[u]]] :
                  hp \in [{1, 2} -> InitHp], st \in [{1, 2} -> InitStamina] }
    /\ active_challenges = [c \in Codes |-> None]
    /\ battles = [b \in BattleNos |-> None]
    /\ active_battles = {}
    /\ handlers = [h \in Procs |-> IdleHandler]
    /\ now = 0
    /\ reply = ""
    /\ ghost = InitGhost

\* the dispatcher runs one update handler to completion before the next one starts
NextSeq ==
    \/ ChallengeStart
    \/ JoinStart("h1")
    \/ PvpStart("h1")
    \/ HandlerStep("h1")

SpecSeq == InitSeq /\ [][NextSeq]_vars

\* stored hp a character enters a battle with: full, after two lost battles
\* (100 // 2 // 2), and after six or more (the penalty of main.py:919 stops at 1)
SettleHp == {1, 25, 100}

\* as Init, with any of these hp for each character
InitSettle ==
    /\ arena = [i \in {1, 2} |-> None]
    /\ result = None
    /\ db \in { [u \in Users |->
                   IF u = 3 THEN None
                   ELSE [create_player(u, IF u = 1 THEN "Fire" ELSE "Ice")
                            EXCEPT !.hp = hp[u]]] :
                  hp \in [{1, 2} -> SettleHp] }
    /\ active_challenges = [c \in Codes |-> None]
    /\ battles = [b \in BattleNos |-> None]
    /\ active_battles = {}
    /\ handlers = [h \in Procs |-> IdleHandler]
    /\ now = 0
    /\ reply = ""
    /\ ghost = InitGhost

SpecSettle == InitSettle /\ [][NextSeq]_vars

-----------------------------------------------------------------------------
(* SpecFail: one handler at a time, over a store whose queries may raise *)

\* a query either answers or raises (get_player then returns None,
\* update_player_stats returns False and writes nothing)
StoreMayFail == BOOLEAN

\* a /join update starts handler h
JoinFailStart(h) ==
    \E u \in Users, c \in BattleCodes, ok \in StoreMayFail :
        FewerBattlesThan(1) /\ JoinCheck(h, u, c, ok)

NextFail ==
    \/ ChallengeStart
    \/ JoinFailStart("h1")
    \/ PvpStart("h1")
    \/ HandlerStepWith("h1", StoreMayFail)

SpecFail == Init /\ [][NextFail]_vars

-----------------------------------------------------------------------------
(* SpecNpc: NPC encounters created by travel, and the callbacks of their keyboards *)

\* Config.LOCATIONS: element and level range of two of the locations
Locations ==
    [ Volcano |-> [element |-> "Fire", min_level |-> 1, max_level |-> 5],
      Tundra  |-> [element |-> "Ice",  min_level |-> 3, max_level |-> 8] ]

\* values random.uniform(0.85, 1.15) is sampled at, in hundredths
StatVariances == {85, 100, 115}

\* GameLogic.create_npc: base stats scale with the level, int(base * stat_variance);
\* the name, drawn from the element's list, only appears in messages
create_npc(level, location_element, stat_variance) ==
    LET scaled(base) == (base * stat_variance) \div 100
    IN [kind |-> "npc", user_id |-> 0, element |-> location_element, level |-> level,
        hp |-> scaled(80 + level * 8), max_hp |-> scaled(80 + level * 8),
        stamina |-> scaled(40 + level * 4), max_stamina |-> scaled(40 + level * 4),
        attack |-> scaled(20 + level * 3), defense |-> scaled(15 + level * 2),
        agility |-> scaled(10 + level * 2), element_power |-> scaled(25 + level * 3)]

\* handle_travel: an enemy of a level of the location is created and the encounter is
\* stored in the battle registry (main.py:266-272); the player's row is read but not used
Travel(user_id, location, level, stat_variance) ==
    LET npc == create_npc(level, Locations[location].element, stat_variance)
        b == NumCreated + 1
    IN /\ handlers["h1"].pc = "idle"
       /\ level >= Locations[location].min_level
       /\ level <= Locations[location].max_level
       /\ battles' = [battles EXCEPT ![b] =
                        [type |-> "npc", player_id |-> user_id, npc |-> npc,
                         location |-> location, turn |-> "player"]]
       /\ active_battles' = active_battles \cup {b}
       /\ reply' = "encounter"
       /\ UNCHANGED <<arena, result, db, active_challenges, handlers, now, ghost>>

\* the callbacks of an encounter's keyboards: fight_<id>, run_<id>, action_..._<id>
NpcCallbacks == {"fight", "run", "action"}

\* handle_callback_query on such a callback (main.py:822-827): it calls
\* self.handle_npc_battle_start, self.handle_run_away or self.handle_battle_action,
\* none of which the class defines; the AttributeError is caught at main.py:836 and
\* answered with the error alert. Nothing else happens.
NpcCallback(user_id, callback, battle_id) ==
    /\ callback \in NpcCallbacks
    /\ handlers["h1"].pc = "idle"
    /\ reply' = "error"
    /\ UNCHANGED <<arena, result, db, active_challenges, battles, active_battles,
                   handlers, now, ghost>>

TravelStart ==
    \E u \in Users, location \in DOMAIN Locations, level \in {1, 5, 8},
       stat_variance \in StatVariances :
        NumCreated < Cardinality(BattleNos) /\ Travel(u, location, level, stat_variance)

NextNpc ==
    \/ TravelStart
    \/ \E u \in Users, callback \in NpcCallbacks, b \in BattleNos :
          NpcCallback(u, callback, b)

SpecNpc == Init /\ [][NextNpc]_vars

-----------------------------------------------------------------------------
(* SpecXp: the operations that grant experience, one whole handler per step *)

\* the operations are followed while the experience they leave stays within this
MaxXp == 130

\* calendar days datetime.now() falls on
Days == {1, 2}
\* amounts the owner passes to /donate
DonateAmounts == {100}
\* the resource type of /donate that grants experience ("coins" is the other one)
DonateResources == {"xp"}

\* GameLogic.check_level_up / main.py:594: the experience a level is left at
xp_for_next_level(level) == (level * level) * 100

\* the columns handle_level_up writes: absolute values for the new level, full heal
level_up_stats(new_level) ==
    [level |-> new_level,
     max_hp |-> 100 + (new_level - 1) * 5,
     max_stamina |-> 50 + (new_level - 1) * 5,
     attack |-> 25 + (new_level - 1) * 5,
     defense |-> 20 + (new_level - 1) * 5,
     agility |-> 15 + (new_level - 1) * 5,
     element_power |-> 30 + (new_level - 1) * 5,
     hp |-> 100 + (new_level - 1) * 5,
     stamina |-> 50 + (new_level - 1) * 5]

\* handle_level_up on store d
handle_level_up(d, user_id, new_level) ==
    update_player_stats(d, user_id, level_up_stats(new_level), TRUE)

\* the streak of a claim made today: continued from yesterday or restarted
new_streak_of(player_data, today) ==
    IF player_data.last_daily_claim = today - 1 /\ today - 1 # NoDay
    THEN player_data.daily_streak + 1
    ELSE 1

\* streak_bonus = min(new_streak * 0.1, 2.0), in tenths; int(base * (1 + streak_bonus))
\* is the integer division below for the streaks of Days
streak_reward(base, new_streak) == (base * (10 + Min(new_streak, 20))) \div 10

\* daily_command: no character, already claimed today, or the reward is written and
\* the level raised by one when the new experience reaches the level's threshold
Daily(user_id, today) ==
    LET player_data == get_player(user_id, TRUE)
        new_streak == new_streak_of(player_data, today)
        xp_reward == streak_reward(25, new_streak)
        new_xp == player_data.experience + xp_reward
        rewarded == update_player_stats(db, user_id,
                        [coins |-> player_data.coins + streak_reward(50, new_streak),
                         experience |-> new_xp,
                         last_daily_claim |-> today,
                         daily_streak |-> new_streak], TRUE)
    IN /\ \A u \in Users : db[u] # None => db[u].last_daily_claim <= today
       /\ IF player_data = None
          THEN reply' = "no_character" /\ UNCHANGED db
          ELSE IF player_data.last_daily_claim = today
          THEN reply' = "already_claimed" /\ UNCHANGED db
          ELSE /\ new_xp <= MaxXp
               /\ reply' = "daily"
               /\ db' = IF new_xp >= xp_for_next_level(player_data.level)
                        THEN handle_level_up(rewarded, user_id, player_data.level + 1)
                        ELSE rewarded
       /\ UNCHANGED <<arena, result, active_challenges, battles, active_battles,
                      handlers, now, ghost>>

\* the column /donate adds to
donated_column(resource_type) == IF resource_type = "xp" THEN "experience" ELSE "coins"

\* one row's donation: update_player_stats(user_id, {column: row[column] + amount})
donate_to(d, user_id, resource_type, amount) ==
    LET column == donated_column(resource_type)
    IN update_player_stats(d, user_id,
           [f \in {column} |-> d[user_id][column] + amount], TRUE)

\* donate_command, /donate <user_id> <resource> <amount> sent by the owner
Donate(user_id, resource_type, amount) ==
    /\ IF get_player(user_id, TRUE) = None
       THEN reply' = "not_found" /\ UNCHANGED db
       ELSE /\ db[user_id].experience + amount <= MaxXp
            /\ db' = donate_to(db, user_id, resource_type, amount)
            /\ reply' = "donated"
    /\ UNCHANGED <<arena, result, active_challenges, battles, active_battles,
                   handlers, now, ghost>>

\* donate_command, /donate <resource> <amount>: every row of get_all_users
DonateAll(resource_type, amount) ==
    /\ \A u \in Users : db[u] # None => db[u].experience + amount <= MaxXp
    /\ db' = [u \in Users |-> IF db[u] = None THEN None
                               ELSE donate_to(db, u, resource_type, amount)[u]]
    /\ reply' = "donated"
    /\ UNCHANGED <<arena, result, active_challenges, battles, active_battles,
                   handlers, now, ghost>>

\* handle_pvp_battle_end for a battle between two characters that winner_id won: the
\* two rows are read, then the winner's and the loser's columns are written
PvpSettlement(winner_id, loser_id) ==
    LET winner_data == get_player(winner_id, TRUE)
        loser_data == get_player(loser_id, TRUE)
        rewarded == update_player_stats(db, winner_id,
                        winner_stats(winner_data, loser_data), TRUE)
    IN /\ winner_id # loser_id
       /\ winner_data # None /\ loser_data # None
       /\ winner_data.experience + loser_data.level * 30 <= MaxXp
       /\ db' = update_player_stats(rewarded, loser_id, loser_stats(loser_data), TRUE)
       /\ reply' = "ended"
       /\ UNCHANGED <<arena, result, active_challenges, battles, active_battles,
                      handlers, now, ghost>>

NextXp ==
    \/ \E u \in Users, today \in Days : Daily(u, today)
    \/ \E u \in Users, r \in DonateResources, amount \in DonateAmounts :
          Donate(u, r, amount)
    \/ \E r \in DonateResources, amount \in DonateAmounts : DonateAll(r, amount)
    \/ \E w, l \in Users : PvpSettlement(w, l)

SpecXp == Init /\ [][NextXp]_vars

-----------------------------------------------------------------------------
(* SpecShop: purchases from the shop keyboard, one whole handler per step *)

\* purchases are explored while the buyer's coins, attack and defense stay within these
MaxCoins == 400
MaxAttack == 55
MaxDefense == 50

\* Config.SHOP_ITEMS: two potions, a weapon, an armor and an accessory
SHOP_ITEMS ==
    [health_potion |-> [type |-> "consumable", price |-> 25, effects |-> [heal |-> 30]],
     stamina_potion |-> [type |-> "consumable", price |-> 20,
                         effects |-> [stamina |-> 25]],
     iron_sword |-> [type |-> "weapon", price |-> 150, stats |-> [attack |-> 10]],
     steel_armor |-> [type |-> "armor", price |-> 200,
                      stats |-> [defense |-> 12, max_hp |-> 20]],
     elemental_focus |-> [type |-> "accessory", price |-> 300,
                          stats |-> [element_power |-> 20, max_stamina |-> 15]]]

\* the buy_<item_id> buttons pressed; "rusty_sword" is not in the shop
ItemIds == DOMAIN SHOP_ITEMS \cup {"rusty_sword"}

\* Database.increase_player_stats on store d: every named column of the row becomes
\* its current value plus the given amount
increase_player_stats(d, user_id, stat_increases) ==
    IF d[user_id] # None
    THEN [d EXCEPT ![user_id] =
             [f \in DOMAIN d[user_id] |->
                 IF f \in DOMAIN stat_increases
                 THEN d[user_id][f] + stat_increases[f]
                 ELSE d[user_id][f]]]
    ELSE d

\* stat_updates = {'coins': player_data['coins'] - price}; stat_updates.update(stats)
stat_updates(player_data, item_data) ==
    [f \in {"coins"} \cup DOMAIN item_data.stats |->
        IF f \in DOMAIN item_data.stats THEN item_data.stats[f]
        ELSE player_data.coins - item_data.price]

\* handle_purchase: an error reply without a character or for an unknown item, a
\* refusal without the coins or at a full bar, a potion written with
\* update_player_stats, a weapon or armor with increase_player_stats, and nothing at
\* all for any other type
Purchase(user_id, item_id) ==
    LET player_data == get_player(user_id, TRUE)
        item_data == SHOP_ITEMS[item_id]
        heal_amount == Min(item_data.effects.heal, player_data.max_hp - player_data.hp)
        stamina_amount == Min(item_data.effects.stamina,
                              player_data.max_stamina - player_data.stamina)
        paid == player_data.coins - item_data.price
    IN /\ player_data # None =>
             /\ player_data.coins <= MaxCoins
             /\ player_data.attack <= MaxAttack
             /\ player_data.defense <= MaxDefense
       /\ IF player_data = None \/ item_id \notin DOMAIN SHOP_ITEMS
          THEN reply' = "error" /\ UNCHANGED db
          ELSE IF player_data.coins < item_data.price
          THEN reply' = "not_enough_coins" /\ UNCHANGED db
          ELSE IF item_data.type = "consumable" /\ "heal" \in DOMAIN item_data.effects
          THEN IF heal_amount <= 0
               THEN reply' = "full_hp" /\ UNCHANGED db
               ELSE /\ reply' = "used"
                    /\ db' = update_player_stats(db, user_id,
                                 [hp |-> player_data.hp + heal_amount, coins |-> paid],
                                 TRUE)
          ELSE IF item_data.type = "consumable"
                  /\ "stamina" \in DOMAIN item_data.effects
          THEN IF stamina_amount <= 0
               THEN reply' = "full_stamina" /\ UNCHANGED db
               ELSE /\ reply' = "used"
                    /\ db' = update_player_stats(db, user_id,
                                 [stamina |-> player_data.stamina + stamina_amount,
                                  coins |-> paid], TRUE)
          ELSE IF item_data.type \in {"weapon", "armor"}
          THEN /\ reply' = "purchased"
               /\ db' = increase_player_stats(db, user_id,
                            stat_updates(player_data, item_data))
          ELSE UNCHANGED <<reply, db>>
       /\ UNCHANGED <<arena, result, active_challenges, battles, active_battles,
                      handlers, now, ghost>>

\* the rows the shop is entered with: new characters short of hp or stamina, with
\* coins below, between and above the prices
ShopRows(user_id) ==
    { [create_player(user_id, "Fire") EXCEPT !.hp = h, !.stamina = st, !.coins = c] :
         h \in {80, 100}, st \in {30, 50}, c \in {20, 100, 160, 250} }

InitShop ==
    /\ db \in [Users -> {None} \cup ShopRows(1)]
    /\ db[1] # None
    /\ db[2] = None
    /\ db[3] = None
    /\ arena = [i \in {1, 2} |-> None]
    /\ result = None
    /\ active_challenges = [c \in Codes |-> None]
    /\ battles = [b \in BattleNos |-> None]
    /\ active_battles = {}
    /\ handlers = [h \in Procs |-> IdleHandler]
    /\ now = 0
    /\ reply = ""
    /\ ghost = InitGhost

NextShop == \E user_id \in Users, item_id \in ItemIds : Purchase(user_id, item_id)

SpecShop == InitShop /\ [][NextShop]_vars

-----------------------------------------------------------------------------
(* SpecHp: every handler that writes a stored hp, one handler at a time: a PvP    *)
(* battle with its settlement, the shop, and the daily reward with its level-up   *)

\* the item that raises hp; the shop and the daily reward are followed for player 1
HpItems == {"health_potion"}

\* no update handler is running
Idle == \A h \in Procs : handlers[h].pc = "idle"

\* as InitSettle, with player 1 one daily reward short of level 2
InitStored ==
    /\ arena = [i \in {1, 2} |-> None]
    /\ result = None
    /\ db \in { [u \in Users |->
                   IF u = 3 THEN None
                   ELSE [create_player(u, IF u = 1 THEN "Fire" ELSE "Ice")
                            EXCEPT !.hp = hp[u],
                                   !.experience = IF u = 1 THEN 80 ELSE 0]] :
                  hp \in [{1, 2} -> SettleHp] }
    /\ active_challenges = [c \in Codes |-> None]
    /\ battles = [b \in BattleNos |-> None]
    /\ active_battles = {}
    /\ handlers = [h \in Procs |-> IdleHandler]
    /\ now = 0
    /\ reply = ""
    /\ ghost = InitGhost

NextHp ==
    \/ NextSeq
    \/ \E item_id \in HpItems : Idle /\ Purchase(1, item_id)
    \/ Idle /\ Daily(1, 1)

SpecHp == InitStored /\ [][NextHp]_vars

-----------------------------------------------------------------------------
(* SpecLimit: one long battle, up to the turn limit of config.py *)

\* Config.BATTLE_SETTINGS['max_turns']
max_turns == 50

\* the actions of the long battle: plain attacks only, so that the log stays uniform
LimitActions == {"attack"}

\* a pvp_attack_<battle id> callback starts handler h, followed up to the turn limit
\* and TurnsPastLimit turns beyond
PvpLimitStart(h) ==
    \E u \in Users, a \in LimitActions, b \in FollowedBattles :
        TurnsBelow(b, u, max_turns + TurnsPastLimit) /\ PvpCheck(h, u, a, b)

NextLimit ==
    \/ ChallengeStart
    \/ JoinStart("h1")
    \/ PvpLimitStart("h1")
    \/ HandlerStep("h1")

SpecLimit == Init /\ [][NextLimit]_vars

-----------------------------------------------------------------------------
(* SpecChallenge: the challenge registry under a running clock and concurrent joins *)

\* users 1 and 2 have a healthy character; user 3 may or may not have one
InitChallenge ==
    /\ arena = [i \in {1, 2} |-> None]
    /\ result = None
    /\ db \in { [u \in Users |-> IF u = 3 THEN r ELSE create_player(u, "Fire")] :
                  r \in {None, create_player(3, "Ice")} }
    /\ active_challenges = [c \in Codes |-> None]
    /\ battles = [b \in BattleNos |-> None]
    /\ active_battles = {}
    /\ handlers = [h \in Procs |-> IdleHandler]
    /\ now = 0
    /\ reply = ""
    /\ ghost = InitGhost

\* a minute passes on the wall clock
Tick ==
    /\ now < MaxTime
    /\ now' = now + 1
    /\ UNCHANGED <<arena, result, db, active_challenges, battles, active_battles,
                   handlers, reply, ghost>>

\* a /challenge update by any user; random.choices may draw a code that is in use
ChallengeAny ==
    \E u \in Users, c \in BattleCodes : Challenge(u, c, TRUE)

\* a /join update by any user starts handler h. One user's joins are taken one at a
\* time: two battles of the same pair created within one second would share their
\* battle id, which the numbering of battles does not show.
JoinAny(h) ==
    \E u \in Users, c \in BattleCodes :
        /\ FewerBattlesThan(Cardinality(BattleNos))
        /\ \A g \in Procs : handlers[g].pc = "join_get_challenger" => handlers[g].user # u
        /\ JoinCheck(h, u, c, TRUE)

NextChallenge ==
    \/ Tick
    \/ ChallengeAny
    \/ \E h \in Procs : JoinAny(h)
    \/ \E h \in Procs : JoinCreate(h, TRUE)

SpecChallenge == InitChallenge /\ [][NextChallenge]_vars

\* the clock runs and a handler that was started runs to its end; no player is
\* obliged to send another update
SpecSweep ==
    /\ InitChallenge
    /\ [][NextChallenge]_vars
    /\ WF_vars(Tick)
    /\ \A h \in Procs : WF_vars(JoinCreate(h, TRUE))

-----------------------------------------------------------------------------
(* SpecBattle: execute_battle_action called on two combatant objects *)

\* combatants a call sequence starts from, within 0 <= hp <= max_hp and
\* 0 <= stamina <= max_stamina: a hard hitter (every hit of its is lethal) and a weak
\* one (every hit of its is floored to 1 damage); the weak one may be a malformed
\* object that has neither a name nor a username
ArenaCombatants ==
    { [kind |-> k, user_id |-> 0, element |-> e, level |-> 1,
       hp |-> h, max_hp |-> 25, stamina |-> s, max_stamina |-> 20,
       attack |-> a, defense |-> 20, agility |-> 15, element_power |-> a] :
         k \in {"player", "npc", "nameless"}, e \in {"Fire", "Ice"},
         h \in {0, 5, 25}, s \in {5, 20}, a \in {1, 60} }

NoResult == [actor |-> 0, log |-> None, winner |-> NoWinner]

InitBattle ==
    /\ arena \in { a \in [{1, 2} -> ArenaCombatants] :
                     /\ a[1].kind = "player" /\ a[1].element = "Fire" /\ a[1].attack = 60
                     /\ a[2].element = "Ice" /\ a[2].attack = 1 }
    /\ result = NoResult
    /\ db = [u \in Users |-> None]
    /\ active_challenges = [c \in Codes |-> None]
    /\ battles = [b \in BattleNos |-> None]
    /\ active_battles = {}
    /\ handlers = [h \in Procs |-> IdleHandler]
    /\ now = 0
    /\ reply = ""
    /\ ghost = InitGhost

\* one call execute_battle_action(arena[i], arena[3 - i], action): either side acts
BattleCall(i, action, is_critical, variance) ==
    LET r == execute_battle_action(arena[i], arena[3 - i], action, is_critical, variance)
    IN /\ arena' = [arena EXCEPT ![i] = r.actor, ![3 - i] = r.target]
       /\ result' = [actor |-> i, log |-> r.log, winner |-> r.winner]
       /\ UNCHANGED <<db, active_challenges, battles, active_battles, handlers, now,
                      reply, ghost>>

\* check_critical_hit and the variance are drawn only in the attack and element branches
NextBattle ==
    \/ \E i \in {1, 2}, action \in {"attack", "element"},
          is_critical \in BOOLEAN, variance \in Variances :
           BattleCall(i, action, is_critical, variance)
    \/ \E i \in {1, 2}, action \in {"defend", "heal", UnknownAction} :
           BattleCall(i, action, FALSE, 100)

SpecBattle == InitBattle /\ [][NextBattle]_vars

-----------------------------------------------------------------------------
(* SpecDamage: calculate_damage called on an attacker and a defender *)

\* values random.uniform(0.8, 1.2) is pinned to, in hundredths
DamageVariances == {80, 90, 100, 110, 120}

\* attackers with no, ordinary and high attack and element power; defenders with no,
\* ordinary, odd and very large defense; element pairs of every declared multiplier
DamageCombatants ==
    { [kind |-> "player", user_id |-> 0, element |-> e, level |-> 1,
       hp |-> 100, max_hp |-> 100, stamina |-> 50, max_stamina |-> 50,
       attack |-> a, defense |-> d, agility |-> 15, element_power |-> a] :
         e \in {"Fire", "Shadow", "Ice", "Water"}, a \in {0, 25, 30, 60},
         d \in {0, 20, 21, 1000} }

\* no call made yet
NoDamage == [damage |-> -1]

InitDamage ==
    /\ arena \in { a \in [{1, 2} -> DamageCombatants] :
                     /\ a[1].element \in {"Fire", "Shadow"} /\ a[1].defense = 20
                     /\ a[2].element \in {"Ice", "Water", "Fire"} /\ a[2].attack = 25 }
    /\ result = NoDamage
    /\ db = [u \in Users |-> None]
    /\ active_challenges = [c \in Codes |-> None]
    /\ battles = [b \in BattleNos |-> None]
    /\ active_battles = {}
    /\ handlers = [h \in Procs |-> IdleHandler]
    /\ now = 0
    /\ reply = ""
    /\ ghost = InitGhost

\* one call calculate_damage(arena[1], arena[2], action, is_critical) with the
\* variance pinned
DamageCall(action, is_critical, variance) ==
    /\ result' = [damage |-> calculate_damage(arena[1], arena[2], action, is_critical,
                                              variance),
                  action |-> action, is_critical |-> is_critical, variance |-> variance]
    /\ UNCHANGED <<arena, db, active_challenges, battles, active_battles, handlers, now,
                   reply, ghost>>

NextDamage ==
    \E action \in {"attack", "element"}, is_critical \in BOOLEAN,
       variance \in DamageVariances :
        DamageCall(action, is_critical, variance)

SpecDamage == InitDamage /\ [][NextDamage]_vars

-----------------------------------------------------------------------------
(* SpecElements: get_element_effectiveness called on a pair of element names *)

\* Config.ELEMENTS: the declared relations of the game data
ELEMENTS ==
    [ Fire      |-> [strong_against |-> {"Ice", "Earth"}, weak_against |-> {"Water"}],
      Ice       |-> [strong_against |-> {"Water", "Earth"},
                     weak_against |-> {"Fire", "Lightning"}],
      Lightning |-> [strong_against |-> {"Water", "Wind"}, weak_against |-> {"Earth"}],
      Water     |-> [strong_against |-> {"Fire", "Earth"},
                     weak_against |-> {"Lightning", "Ice"}],
      Earth     |-> [strong_against |-> {"Lightning", "Fire"},
                     weak_against |-> {"Water", "Wind"}],
      Wind      |-> [strong_against |-> {"Earth", "Shadow"},
                     weak_against |-> {"Lightning"}],
      Shadow    |-> [strong_against |-> {"Light", "Wind"}, weak_against |-> {"Light"}],
      Light     |-> [strong_against |-> {"Shadow", "Dark"}, weak_against |-> {"Shadow"}] ]

\* the element line of the help text: each element beats the next one
HelpCycle ==
    <<"Fire", "Ice", "Water", "Lightning", "Earth", "Wind", "Shadow", "Light", "Fire">>

\* the element names a combatant can carry: the 8 elements and one that is in no table
ElementNames == DOMAIN ELEMENTS \cup {"Dark"}

\* no lookup made yet
NoLookup == [effectiveness |-> 0]

InitElements ==
    /\ arena \in [{1, 2} -> {Player(create_player(1, e)) : e \in ElementNames}]
    /\ result = NoLookup
    /\ db = [u \in Users |-> None]
    /\ active_challenges = [c \in Codes |-> None]
    /\ battles = [b \in BattleNos |-> None]
    /\ active_battles = {}
    /\ handlers = [h \in Procs |-> IdleHandler]
    /\ now = 0
    /\ reply = ""
    /\ ghost = InitGhost

\* one call get_element_effectiveness(attacker.element, defender.element)
EffectivenessCall ==
    /\ result = NoLookup
    /\ result' = [effectiveness |->
                     get_element_effectiveness(arena[1].element, arena[2].element)]
    /\ UNCHANGED <<arena, db, active_challenges, battles, active_battles, handlers, now,
                   reply, ghost>>

NextElements == EffectivenessCall

SpecElements == InitElements /\ [][NextElements]_vars

-----------------------------------------------------------------------------
(* SpecCrit: check_critical_hit called on two attackers one agility point apart *)

\* a critical-hit chance without the cap
total_crit_chance_uncapped(attacker) == 100 + attacker.agility

\* total_crit_chance = min(0.3, 0.1 + agility * 0.001), in thousandths
total_crit_chance(attacker) == Min(300, 100 + attacker.agility)

\* GameLogic.check_critical_hit, with random.random() given in thousandths
check_critical_hit(attacker, roll) == roll < total_crit_chance(attacker)

\* values of random.random(), in thousandths
Rolls == {0, 299}

\* no call made yet
NoCrit == [chance |-> -1, is_critical |-> FALSE]

InitCrit ==
    /\ arena \in { a \in [{1, 2} -> { [Player(create_player(1, "Fire"))
                                          EXCEPT !.agility = g] :
                                       g \in 0..(MaxAgility + 1) }] :
                     a[2].agility = a[1].agility + 1 }
    /\ result = [i \in {1, 2} |-> NoCrit]
    /\ db = [u \in Users |-> None]
    /\ active_challenges = [c \in Codes |-> None]
    /\ battles = [b \in BattleNos |-> None]
    /\ active_battles = {}
    /\ handlers = [h \in Procs |-> IdleHandler]
    /\ now = 0
    /\ reply = ""
    /\ ghost = InitGhost

\* one call check_critical_hit(arena[i])
CritCall(i, roll) ==
    /\ result' = [result EXCEPT ![i] =
                     [chance |-> total_crit_chance(arena[i]),
                      is_critical |-> check_critical_hit(arena[i], roll)]]
    /\ UNCHANGED <<arena, db, active_challenges, battles, active_battles, handlers, now,
                   reply, ghost>>

NextCrit == \E i \in {1, 2}, roll \in Rolls : CritCall(i, roll)

SpecCrit == InitCrit /\ [][NextCrit]_vars

-----------------------------------------------------------------------------
(* SpecReward: calculate_xp_reward and calculate_coin_reward called on two levels *)

\* the levels of the first four locations of Config.LOCATIONS
RewardLevels == 1..12

\* bonus_multiplier of calculate_xp_reward, in hundredths
xp_multiplier(level_diff) ==
    IF level_diff > 0 THEN 100 + level_diff * 15
    ELSE IF level_diff < -5 THEN Max(10, 100 + level_diff * 10)
    ELSE 100

\* bonus_multiplier of calculate_coin_reward, in hundredths
coin_multiplier(level_diff) ==
    IF level_diff > 0 THEN 100 + level_diff * 10
    ELSE IF level_diff < -5 THEN Max(20, 100 + level_diff * 5)
    ELSE 100

\* The multiplier is a double: 0.15, 0.1 and 0.05 have no exact binary form, so
\* 1 + level_diff * 0.15 and the product base_xp * bonus_multiplier are rounded. For
\* these <<player_level, enemy_level>> of RewardLevels the exact product is an integer
\* and the double product lies just below it (player 4, enemy 5: 100 * 1.15 is
\* 114.99999999999999), so int() returns one less than the exact product; for every
\* other pair int() of the double is the floor of the exact product.
XpProductBelow ==
    { <<1, 10>>, <<2, 9>>, <<2, 11>>, <<3, 10>>, <<3, 12>>, <<4, 5>>, <<4, 11>>,
      <<5, 12>>, <<7, 1>>, <<8, 1>>, <<8, 2>>, <<8, 9>>, <<9, 1>>, <<9, 2>>, <<9, 3>>,
      <<9, 10>>, <<10, 2>>, <<10, 3>>, <<10, 4>>, <<10, 11>>, <<11, 3>>, <<11, 4>>,
      <<11, 5>>, <<12, 4>>, <<12, 5>>, <<12, 6>> }

\* the same for base_coins * bonus_multiplier (player 5, enemy 9: 90 * 1.4 is
\* 125.99999999999999)
CoinProductBelow ==
    { <<5, 9>>, <<9, 2>>, <<11, 4>> }

\* GameLogic.calculate_xp_reward
calculate_xp_reward(player_level, enemy_level) ==
    LET product == enemy_level * 20 * xp_multiplier(enemy_level - player_level)
        below == IF <<player_level, enemy_level>> \in XpProductBelow THEN 1 ELSE 0
    IN Max(1, product \div 100 - below)

\* GameLogic.calculate_coin_reward
calculate_coin_reward(player_level, enemy_level) ==
    LET product == enemy_level * 10 * coin_multiplier(enemy_level - player_level)
        below == IF <<player_level, enemy_level>> \in CoinProductBelow THEN 1 ELSE 0
    IN Max(1, product \div 100 - below)

\* no call made yet
NoReward == [xp |-> 0, coins |-> 0]

InitReward ==
    /\ arena \in { a \in [{1, 2} ->
                            {[Player(create_player(1, "Fire")) EXCEPT !.level = l] :
                                 l \in RewardLevels}
                            \cup {create_npc(l, "Fire", 100) : l \in RewardLevels}] :
                     a[1].kind = "player" /\ a[2].kind = "npc" }
    /\ result = NoReward
    /\ db = [u \in Users |-> None]
    /\ active_challenges = [c \in Codes |-> None]
    /\ battles = [b \in BattleNos |-> None]
    /\ active_battles = {}
    /\ handlers = [h \in Procs |-> IdleHandler]
    /\ now = 0
    /\ reply = ""
    /\ ghost = InitGhost

\* the two reward calls for a player of arena[1]'s level and an enemy of arena[2]'s
RewardCall ==
    /\ result = NoReward
    /\ result' = [xp |-> calculate_xp_reward(arena[1].level, arena[2].level),
                  coins |-> calculate_coin_reward(arena[1].level, arena[2].level)]
    /\ UNCHANGED <<arena, db, active_challenges, battles, active_battles, handlers, now,
                   reply, ghost>>

NextReward == RewardCall

SpecReward == InitReward /\ [][NextReward]_vars

-----------------------------------------------------------------------------
(* SpecAi: choose_npc_action called on an NPC object and its target *)

\* the two outcomes of random.choice(['attack', 'attack', 'attack', 'defend'])
RandomChoices == {"attack", "defend"}

\* an NPC policy that looks at the element skill before the heal
choose_npc_action_element_first(npc, target, random_choice) ==
    IF 10 * npc.stamina > 6 * npc.max_stamina /\ can_use_element_skill(npc)
       /\ get_element_effectiveness(npc.element, target.element) >= 10
    THEN "element"
    ELSE IF 10 * npc.hp < 3 * npc.max_hp /\ can_heal(npc) THEN "heal"
    ELSE IF 10 * npc.stamina < 3 * npc.max_stamina THEN "defend"
    ELSE random_choice

\* GameLogic.choose_npc_action: hp_percentage = hp / max_hp < 0.3 is 10 * hp < 3 * max_hp,
\* and so for the stamina; a division by zero is caught and answered with 'attack'
choose_npc_action(npc, target, random_choice) ==
    IF npc.max_hp = 0 \/ npc.max_stamina = 0 THEN "attack"
    ELSE IF 10 * npc.hp < 3 * npc.max_hp /\ can_heal(npc) THEN "heal"
    ELSE IF /\ 10 * npc.stamina > 6 * npc.max_stamina /\ can_use_element_skill(npc)
            /\ get_element_effectiveness(npc.element, target.element) >= 10
    THEN "element"
    ELSE IF 10 * npc.stamina < 3 * npc.max_stamina THEN "defend"
    ELSE random_choice

\* NPC objects around the thresholds of the policy: hp at 29%, 30% and 100%; stamina
\* below 10, below 15, at and above 30% and 60% of a small and of a large pool
AiNpcs ==
    { [kind |-> "npc", user_id |-> 0, element |-> e, level |-> 1,
       hp |-> h, max_hp |-> 100, stamina |-> s, max_stamina |-> ms,
       attack |-> 23, defense |-> 17, agility |-> 12, element_power |-> 28] :
         e \in {"Fire", "Shadow"}, h \in {29, 30, 100},
         s \in {5, 9, 13, 14, 15, 30, 31}, ms \in {20, 50} }

\* the elements of the targets: strong, weak, neutral and slightly strong pairings
AiTargetElements == {"Ice", "Water", "Fire", "Light"}

\* no choice made yet
NoChoice == [npc_action |-> "none"]

InitAi ==
    /\ arena \in { a \in [{1, 2} -> AiNpcs \cup
                                     {Player(create_player(1, e)) : e \in AiTargetElements}] :
                     /\ a[1] \in AiNpcs /\ a[1].stamina <= a[1].max_stamina
                     /\ a[2].kind = "player" }
    /\ result = NoChoice
    /\ db = [u \in Users |-> None]
    /\ active_challenges = [c \in Codes |-> None]
    /\ battles = [b \in BattleNos |-> None]
    /\ active_battles = {}
    /\ handlers = [h \in Procs |-> IdleHandler]
    /\ now = 0
    /\ reply = ""
    /\ ghost = InitGhost

\* one call choose_npc_action(arena[1], arena[2])
ChooseCall(random_choice) ==
    /\ result' = [npc_action |-> choose_npc_action(arena[1], arena[2], random_choice)]
    /\ UNCHANGED <<arena, db, active_challenges, battles, active_battles, handlers, now,
                   reply, ghost>>

NextAi == \E random_choice \in RandomChoices : ChooseCall(random_choice)

SpecAi == InitAi /\ [][NextAi]_vars

-----------------------------------------------------------------------------
(* SpecAuto: simulate_auto_battle, one step per evaluation of the loop condition *)
(* and per combatant's turn; it is called where asyncio.run can run              *)

\* the turn cap of the while condition (game_logic.py:362)
MaxAutoTurns == 20

\* a winner determination that always names player1
auto_winner_first(player1, player2) == "player1"

\* "Determine winner": the one still alive, else the higher hp percentage (player2
\* on a tie); hp / max_hp compared as cross products
auto_winner(player1, player2) ==
    IF ~is_alive(player1) THEN "player2"
    ELSE IF ~is_alive(player2) THEN "player1"
    ELSE IF player1.hp * player2.max_hp > player2.hp * player1.max_hp THEN "player1"
    ELSE "player2"

\* a hard hitter without defense and a weak hitter with high defense, each at 0, 5 or
\* 30 of 30 hp; the stamina pool of 10 is too small for an element skill
AutoCombatants ==
    { [kind |-> "player", user_id |-> 0, element |-> "Fire", level |-> 1,
       hp |-> h, max_hp |-> 30, stamina |-> 10, max_stamina |-> 10,
       attack |-> s.attack, defense |-> s.defense, agility |-> 15,
       element_power |-> s.attack] :
         h \in {0, 5, 30},
         s \in {[attack |-> 60, defense |-> 0], [attack |-> 1, defense |-> 60]} }

InitAuto ==
    /\ arena \in [{1, 2} -> AutoCombatants]
    /\ result = [pc |-> "while", turn |-> 1, log_len |-> 0, winner |-> "",
                 last_actor |-> 0,
                 started_alive |-> is_alive(arena[1]) /\ is_alive(arena[2])]
    /\ db = [u \in Users |-> None]
    /\ active_challenges = [c \in Codes |-> None]
    /\ battles = [b \in BattleNos |-> None]
    /\ active_battles = {}
    /\ handlers = [h \in Procs |-> IdleHandler]
    /\ now = 0
    /\ reply = ""
    /\ ghost = InitGhost

\* the function returns: winner and 'turns' are fixed
auto_return(res, player1, player2) ==
    [res EXCEPT !.pc = "returned", !.winner = auto_winner(player1, player2)]

\* while player1.is_alive() and player2.is_alive() and turn <= 20
AutoWhile ==
    /\ result.pc = "while"
    /\ result' = IF is_alive(arena[1]) /\ is_alive(arena[2])
                    /\ result.turn <= MaxAutoTurns
                 THEN [result EXCEPT !.pc = "player1"]
                 ELSE auto_return(result, arena[1], arena[2])
    /\ UNCHANGED <<arena, db, active_challenges, battles, active_battles, handlers,
                   now, reply, ghost>>

\* where the loop body goes on after combatant i's turn: player 2's turn, or
\* turn += 1 and the loop condition
auto_next(res, i) ==
    IF i = 1 THEN [res EXCEPT !.pc = "player2"]
    ELSE [res EXCEPT !.pc = "while", !.turn = res.turn + 1]

\* "Player i's turn": if alive, the policy picks the action, it is executed and
\* logged, and a reported winner breaks the loop
AutoTurn(i, random_choice, is_critical, variance) ==
    LET action == choose_npc_action(arena[i], arena[3 - i], random_choice)
        r == execute_battle_action(arena[i], arena[3 - i], action, is_critical, variance)
        logged == [result EXCEPT !.log_len = result.log_len + 1, !.last_actor = i]
    IN /\ result.pc = (IF i = 1 THEN "player1" ELSE "player2")
       /\ IF is_alive(arena[i])
          THEN /\ arena' = [arena EXCEPT ![i] = r.actor, ![3 - i] = r.target]
               /\ result' = IF r.winner # NoWinner
                            THEN auto_return(logged, arena'[1], arena'[2])
                            ELSE auto_next(logged, i)
          ELSE /\ UNCHANGED arena
               /\ result' = auto_next(result, i)
       /\ UNCHANGED <<db, active_challenges, battles, active_battles, handlers, now,
                      reply, ghost>>

NextAuto ==
    \/ AutoWhile
    \/ \E i \in {1, 2}, random_choice \in RandomChoices, is_critical \in BOOLEAN,
          variance \in Variances :
           AutoTurn(i, random_choice, is_critical, variance)

SpecAuto == InitAuto /\ [][NextAuto]_vars

-----------------------------------------------------------------------------
(* Claims about execute_battle_action *)

InRange(c) ==
    /\ 0 <= c.hp /\ c.hp <= c.max_hp
    /\ 0 <= c.stamina /\ c.stamina <= c.max_stamina

\* C1: after any sequence of execute_battle_action calls (either side acting, any
\* action, any crit outcome, any variance) both combatants keep 0 <= hp <= max_hp and
\* 0 <= stamina <= max_stamina.
C1_CombatantsStayInRange ==
    \A i \in {1, 2} : InRange(arena[i])

\* a heal reached full hp and a hit reached hp 0 in the same call sequence
C1_Witness ==
    /\ result.actor # 0
    /\ result.log.text = "heals"
    /\ arena[result.actor].hp = arena[result.actor].max_hp
    /\ arena[3 - result.actor].hp = 0

-----------------------------------------------------------------------------
(* Claims about the PvP session *)

\* the positions of a handler inside handle_pvp_battle_end
EndPcs == {"end_get_winner", "end_get_loser", "end_update_winner",
           "end_update_loser", "end_cleanup"}

\* the participant of battle who is not user_id
Opponent(battle, user_id) ==
    IF user_id = battle.player1_id THEN battle.player2_id ELSE battle.player1_id

\* C2: when participant X's action brings the opponent's hp to 0, the winner used for
\* settlement is X and the loser is X's opponent.
C2_WinnerIsActor ==
    \A h \in Procs :
        handlers[h].pc \in EndPcs =>
            /\ handlers[h].winner_id = handlers[h].user
            /\ handlers[h].loser_id = Opponent(battles[handlers[h].battle], handlers[h].user)

\* C3: an accepted hit that does not defeat the opponent is persisted: when its handler
\* returns, the store holds the opponent's hp after the hit, so that the fresh
\* snapshot of every later action starts from it.
C3_DamagePersisted ==
    [][\A h \in Procs :
          (handlers[h].pc = "update" /\ handlers[h].winner = NoWinner
             /\ handlers'[h].pc = "idle")
          => db'[Opponent(battles[handlers[h].battle], handlers[h].user)].hp
                = handlers[h].opp_hp]_vars

\* battles won and lost over all characters
RECURSIVE SumOver(_, _)
SumOver(S, col) ==
    IF S = {} THEN 0
    ELSE LET u == CHOOSE x \in S : TRUE
         IN (IF db[u] = None THEN 0 ELSE db[u][col]) + SumOver(S \ {u}, col)

\* C4: settlement is applied at most once per battle: over all characters there are
\* never more wins, nor more losses, than battles that were created.
C4_SettledAtMostOnce ==
    /\ SumOver(Users, "battles_won") <= NumCreated
    /\ SumOver(Users, "battles_lost") <= NumCreated

\* C5: at most one action is applied per turn of a battle: its log never holds more
\* entries than its turn counter says turns were begun.
C5_OneActionPerTurn ==
    \A b \in BattleNos :
        battles[b] # None => Len(battles[b].battle_log) <= battles[b].turn_count

\* what a rejected submission must leave alone
SessionAndStore == <<db, battles, active_battles, active_challenges, handlers, ghost>>

\* C6: a submission by anyone but the current turn holder is never taken up, and the
\* step that answers it "not your turn" changes neither the battle (current_turn,
\* turn_count, battle_log), the stored players, nor the registries.
C6_OutOfTurnRejected ==
    [][/\ \A h \in Procs :
             (handlers[h].pc = "idle" /\ handlers'[h].pc = "get_p1")
             => battles[handlers'[h].battle].current_turn = handlers'[h].user
       /\ (reply' = "not_your_turn" /\ reply # "not_your_turn")
             => UNCHANGED SessionAndStore]_vars

\* an outsider or the waiting participant was answered "not your turn" after a turn
\* had already been played
C6_Witness ==
    /\ reply = "not_your_turn"
    /\ \E b \in active_battles : battles[b].turn_count = 2

\* C7: an unknown action name is rejected with no state change: no step of a handler
\* that carries one changes a battle or a stored player.
C7_UnknownActionRejected ==
    [][\A h \in Procs :
          (handlers[h].action = UnknownAction /\ handlers'[h] # handlers[h])
          => UNCHANGED <<battles, db>>]_vars

\* C8: a battle whose handle_pvp_battle_end returned is not in the registry; a
\* submission is taken up only for a battle in the registry, and the step that
\* answers "battle not found" changes no session or player state.
C8_EndedBattleNotFound ==
    /\ [](\A b \in ghost.ended : b \notin active_battles)
    /\ [][/\ \A h \in Procs :
                (handlers[h].pc = "idle" /\ handlers'[h].pc = "get_p1")
                => handlers'[h].battle \in active_battles
          /\ (reply' = "not_found" /\ reply # "not_found")
                => UNCHANGED SessionAndStore]_vars

\* a battle ended by defeat and a later submission for it was answered "not found"
C8_Witness ==
    /\ ghost.ended # {}
    /\ reply = "not_found"

\* C9: in every battle of the registry the two participants are distinct and
\* current_turn is one of them.
C9_ExactlyOneToAct ==
    \A b \in active_battles :
        /\ battles[b].player1_id # battles[b].player2_id
        /\ battles[b].current_turn \in {battles[b].player1_id, battles[b].player2_id}

\* a registered battle in which the turn has passed to the joiner
C9_Witness ==
    \E b \in active_battles :
        /\ battles[b].turn_count = 2
        /\ battles[b].current_turn = battles[b].player2_id

\* C10: a battle is created with the challenger as turn holder, turn_count 1 and an
\* empty log; every accepted action that does not end the battle hands the turn to
\* the other participant and adds exactly 1 to turn_count; and the participants act
\* in strict alternation, the challenger first.
C10_StrictAlternation ==
    [][\A h \in Procs :
          LET me == handlers[h]
          IN /\ (me.pc = "join_get_challenger" /\ battles' # battles)
                => \E b \in BattleNos :
                      /\ battles[b] = None
                      /\ battles'[b].player1_id = me.challenger_id
                      /\ battles'[b].player2_id = me.user
                      /\ battles'[b].current_turn = me.challenger_id
                      /\ battles'[b].turn_count = 1
                      /\ battles'[b].battle_log = <<>>
             /\ (me.pc = "update" /\ me.winner = NoWinner /\ handlers'[h].pc = "idle")
                => /\ battles'[me.battle].current_turn =
                         Opponent(battles[me.battle], battles[me.battle].current_turn)
                   /\ battles'[me.battle].current_turn # battles[me.battle].current_turn
                   /\ battles'[me.battle].turn_count = battles[me.battle].turn_count + 1
             /\ (me.pc = "get_p2" /\ handlers'[h].pc = "update")
                => IF ghost.last_actor[me.battle] = 0
                   THEN me.user = battles[me.battle].player1_id
                   ELSE me.user = Opponent(battles[me.battle], ghost.last_actor[me.battle])
      ]_vars

\* the challenger has acted, then the joiner, and the turn is back with the challenger
C10_Witness ==
    \E b \in active_battles :
        /\ battles[b].turn_count = 3
        /\ Len(battles[b].battle_log) = 2
        /\ ghost.last_actor[b] = battles[b].player2_id
        /\ battles[b].current_turn = battles[b].player1_id

-----------------------------------------------------------------------------
(* Claims about the turn limit, expiry and the challenge registry *)

\* C11: the turn limit bounds every battle: no battle's turn counter ever exceeds
\* Config.BATTLE_SETTINGS['max_turns'] (50).
C11_TurnLimit ==
    \A b \in BattleNos :
        battles[b] # None => battles[b].turn_count <= max_turns

\* a challenge is stored under code c and the clock is past its expires_at
Expired(c) ==
    /\ active_challenges[c] # None
    /\ now > active_challenges[c].expires_at

\* C12: a challenge that has passed its expiry is eventually removed from the registry
\* by the engine itself (the clock runs, no player sends a further update): the
\* expired challenge does not stay under its code forever.
C12_ExpiredEventuallyRemoved ==
    \A c \in Codes : Expired(c) ~> ~Expired(c)

\* C13: a challenge is consumed at most once: a join creates a battle only from a
\* challenge that no join has yet turned into a battle, also when joins interleave,
\* and after a join that started a battle the code is absent from the registry.
C13_ChallengeConsumedOnce ==
    [][\A h \in Procs :
          LET me == handlers[h]
          IN /\ (me.pc = "join_get_challenger" /\ battles' # battles)
                => me.code \notin ghost.consumed
             /\ (me.pc = "join_get_challenger" /\ handlers'[h].pc = "idle"
                   /\ reply' = "battle_started")
                => active_challenges'[me.code] = None]_vars

\* C14 as stated: a /join sent by any user after the challenge's expires_at starts no
\* battle and removes the expired challenge from the registry.
C14_ExpiredJoinRemoves ==
    [][\A h \in Procs, u \in Users, c \in Codes :
          (Expired(c) /\ JoinCheck(h, u, c, TRUE))
          => /\ handlers'[h].pc = "idle"
             /\ battles' = battles /\ active_battles' = active_battles
             /\ active_challenges'[c] = None]_vars

\* C14, amended: a /join sent after the challenge's expires_at never starts a battle, and
\* when the joiner's row is read and shows a character with hp > 0 it removes the
\* expired challenge from the registry.
C14_ExpiredJoinByCharacterRemoves ==
    [][\A h \in Procs, u \in Users, c \in Codes :
          (Expired(c) /\ JoinCheck(h, u, c, TRUE))
          => /\ handlers'[h].pc = "idle"
             /\ battles' = battles /\ active_battles' = active_battles
             /\ (db[u] # None /\ db[u].hp > 0) => active_challenges'[c] = None]_vars

\* a join was answered "expired", the challenge is gone and no battle was ever started
C14_Witness ==
    /\ reply = "expired"
    /\ \A c \in Codes : active_challenges[c] = None
    /\ NumCreated = 0
    /\ now > ChallengeMinutes

\* C15: a live challenge is never mutated: while a code stays in the registry, the
\* challenge stored under it is the same object with the same challenger and expiry,
\* whoever creates further challenges.
C15_LiveChallengeNeverMutated ==
    [][\A c \in Codes :
          (active_challenges[c] # None /\ active_challenges'[c] # None)
          => active_challenges'[c] = active_challenges[c]]_vars

-----------------------------------------------------------------------------
(* Claims about no-op turns, faults and settlement *)

\* handler h is about to resolve a heal its actor cannot do (stamina < 10 or full hp)
\* or an element skill its actor cannot pay (stamina < 15)
NoOpSubmitted(h) ==
    LET me == handlers[h]
        row == db[me.user]
    IN /\ me.pc = "get_p2"
       /\ \/ me.action = "heal" /\ (row.stamina < 10 \/ row.hp = row.max_hp)
          \/ me.action = "element" /\ row.stamina < 15

\* the last log line of handler h's battle reports a failed heal or element skill
NoOpLogged(h) ==
    LET log == battles[handlers[h].battle].battle_log
    IN /\ handlers[h].pc = "update"
       /\ Len(log) > 0
       /\ log[Len(log)].text \in {"cannot heal", "not enough stamina"}

\* C16: a heal when can_heal() is false and an element skill with stamina < 15 are valid
\* no-op turns: no hp or stamina of either combatant changes, exactly one log entry
\* reporting the failure is added, no winner is declared, and the turn passes to the
\* opponent with the battle still registered.
C16_NoOpTurn ==
    [][\A h \in Procs :
          LET me == handlers[h]
              battle == battles[me.battle]
              opp == Opponent(battle, me.user)
          IN /\ (NoOpSubmitted(h) /\ handlers'[h] # me)
                => /\ handlers'[h].pc = "update"
                   /\ handlers'[h].cur_hp = db[me.user].hp
                   /\ handlers'[h].cur_stamina = db[me.user].stamina
                   /\ handlers'[h].opp_hp = db[opp].hp
                   /\ handlers'[h].winner = NoWinner
                   /\ Len(battles'[me.battle].battle_log) = Len(battle.battle_log) + 1
                   /\ SubSeq(battles'[me.battle].battle_log, 1, Len(battle.battle_log))
                         = battle.battle_log
                   /\ NoOpLogged(h)'
                   /\ ~battles'[me.battle].battle_log[Len(battle.battle_log) + 1].defeated
                   /\ db' = db
             /\ (NoOpLogged(h) /\ handlers'[h] # me)
                => /\ db' = db
                   /\ reply' = "applied"
                   /\ battles'[me.battle].current_turn = opp
                   /\ battles'[me.battle].turn_count = battle.turn_count + 1
                   /\ battles'[me.battle].battle_log = battle.battle_log
                   /\ active_battles' = active_battles]_vars

\* a failed heal at full hp by the challenger, then a failed element skill by the
\* joiner, and the turn is back with the challenger
C16_Witness ==
    \E b \in active_battles :
        /\ Len(battles[b].battle_log) = 2
        /\ battles[b].battle_log[1].text = "cannot heal"
        /\ battles[b].battle_log[2].text = "not enough stamina"
        /\ battles[b].turn_count = 3
        /\ battles[b].current_turn = battles[b].player1_id
        /\ reply = "applied"

\* C17: when execute_battle_action hits an internal error the outcome is a safe no-op:
\* the generic error log is returned with winner None, and no hp or stamina of either
\* combatant differs from its value before the call; a winner is reported only with
\* the target at hp 0.
C17_ErrorIsSafeNoOp ==
    [][/\ result'.log.text = "error"
          => /\ result'.winner = NoWinner
             /\ arena' = arena
       /\ result'.winner # NoWinner => arena'[3 - result'.actor].hp = 0]_vars

\* no update handler is running
Quiescent == \A h \in Procs : handlers[h].pc = "idle"

\* C18: a failed store read or write leaves the session as it was before the failed
\* action and applies no reward or penalty in part: between actions every logged line
\* of a registered battle belongs to a turn that was completed, and over all
\* characters as many wins as losses have been recorded.
C18_FaultLeavesSessionIntact ==
    Quiescent =>
        /\ \A b \in active_battles :
              Len(battles[b].battle_log) = battles[b].turn_count - 1
        /\ SumOver(Users, "battles_won") = SumOver(Users, "battles_lost")

\* C19: in an NPC encounter a player action submitted for the session is resolved (and
\* the NPC's counter-move applied before control returns), and the session leaves the
\* registry when the player runs away.
C19_NpcEncounterResolved ==
    [][\A u \in Users, b \in active_battles :
          /\ NpcCallback(u, "action", b) => reply' # "error"
          /\ NpcCallback(u, "run", b) => b \notin active_battles']_vars

\* the step of handler h from one point of handle_pvp_battle_end to the next
SettleStep(h, from, to) == handlers[h].pc = from /\ handlers'[h].pc = to

\* the store after the winner's reward: only these three columns of the winner's row
WinnerRewarded(h) ==
    LET w == handlers[h].winner_id
        l == handlers[h].loser_id
    IN db' = [db EXCEPT ![w] = [db[w] EXCEPT
                 !.battles_won = db[w].battles_won + 1,
                 !.experience = db[w].experience + 30 * db[l].level,
                 !.coins = db[w].coins + 15 * db[l].level]]

\* the store after the loser's penalty: only battles_lost and hp of the loser's row
LoserPenalised(h, hp_after) ==
    LET l == handlers[h].loser_id
    IN db' = [db EXCEPT ![l] = [db[l] EXCEPT
                 !.battles_lost = db[l].battles_lost + 1,
                 !.hp = hp_after]]

\* C20, as stated: on PvP termination the winner gains 30 x the loser's level in
\* experience, 15 x the loser's level in coins and one battle won; the loser gains one
\* battle lost and the loser's hp is halved; nothing else in the store changes.
C20_SettlementHalvesHp ==
    [][\A h \in Procs :
          /\ SettleStep(h, "end_update_winner", "end_update_loser") => WinnerRewarded(h)
          /\ SettleStep(h, "end_update_loser", "end_cleanup") =>
                 LoserPenalised(h, db[handlers[h].loser_id].hp \div 2)
          /\ handlers[h].pc \in {"end_get_winner", "end_get_loser", "end_cleanup"} =>
                 db' = db]_vars

\* C20, amended: as above, with the loser's hp halved rounding down but never brought
\* below 1.
C20_SettlementHalvesHpToAtLeastOne ==
    [][\A h \in Procs :
          /\ SettleStep(h, "end_update_winner", "end_update_loser") => WinnerRewarded(h)
          /\ SettleStep(h, "end_update_loser", "end_cleanup") =>
                 LoserPenalised(h, Max(1, db[handlers[h].loser_id].hp \div 2))
          /\ handlers[h].pc \in {"end_get_winner", "end_get_loser", "end_cleanup"} =>
                 db' = db]_vars

\* a battle was settled whose loser keeps 1 hp, next to one settled with a plain halving
C20_Witness ==
    /\ ghost.ended # {}
    /\ reply = "ended"
    /\ \E w, l \in Users :
          /\ db[w] # None /\ db[l] # None
          /\ db[w].battles_won = 1 /\ db[w].experience = 30 /\ db[w].coins = 115
          /\ db[l].battles_lost = 1 /\ db[l].hp = 1

-----------------------------------------------------------------------------
(* Claims about levels, the action log and the combat formulas *)

\* C21: after every operation that grants experience (PvP victory settlement, daily
\* reward, admin donation) the player's stored experience is below level^2 * 100 for
\* the stored level, or the level was incremented by that operation.
C21_LevelUpOnThreshold ==
    [][\A u \in Users :
          (db[u] # None /\ db'[u] # None /\ db'[u].experience > db[u].experience) =>
              \/ db'[u].experience < (db'[u].level * db'[u].level) * 100
              \/ db'[u].level > db[u].level]_vars

\* handler h takes the step of handle_pvp_action that resolves its accepted action
ActionAccepted(h, b) ==
    /\ handlers[h].pc = "get_p2" /\ handlers[h].battle = b
    /\ handlers'[h].pc = "update"

\* a submission is turned down by the registry check or the turn check
SubmissionRejected ==
    /\ \A h \in Procs : handlers[h].pc = "idle" /\ handlers'[h].pc = "idle"
    /\ reply' \in {"not_found", "not_your_turn"}

\* C22: the action log is append-only with exactly one non-empty entry per accepted
\* action: every step leaves a battle's log as it was or extends it by one non-empty
\* entry, an accepted action extends it, and a rejected submission (out of turn,
\* unknown session) adds nothing.
C22_LogAppendOnly ==
    [][\A b \in BattleNos :
          (battles[b] # None /\ battles'[b] # None) =>
              LET log == battles[b].battle_log
                  extended == battles'[b].battle_log
              IN /\ \/ extended = log
                    \/ /\ Len(extended) = Len(log) + 1
                       /\ SubSeq(extended, 1, Len(log)) = log
                       /\ extended[Len(extended)].text # ""
                 /\ (\E h \in Procs : ActionAccepted(h, b)) => extended # log
                 /\ SubmissionRejected => extended = log]_vars

\* the rules of the NPC policy, as fractions of the pools
LowHp(npc) == 10 * npc.hp < 3 * npc.max_hp
HighStamina(npc) == 10 * npc.stamina > 6 * npc.max_stamina
LowStamina(npc) == 10 * npc.stamina < 3 * npc.max_stamina

\* C23: choose_npc_action returns the action of the first matching rule: (1) hp below
\* 30% and can_heal() gives heal; (2) otherwise stamina above 60%,
\* can_use_element_skill() and effectiveness >= 1.0 give element; (3) otherwise
\* stamina below 30% gives defend; (4) otherwise attack or defend.
C23_NpcPolicyPriority ==
    result # NoChoice =>
        LET npc == arena[1]
            target == arena[2]
            rule1 == LowHp(npc) /\ npc.stamina >= 10 /\ npc.hp < npc.max_hp
            rule2 == /\ HighStamina(npc) /\ npc.stamina >= 15
                     /\ get_element_effectiveness(npc.element, target.element) >= 10
            rule3 == LowStamina(npc)
        IN /\ rule1 => result.npc_action = "heal"
           /\ (~rule1 /\ rule2) => result.npc_action = "element"
           /\ (~rule1 /\ ~rule2 /\ rule3) => result.npc_action = "defend"
           /\ (~rule1 /\ ~rule2 /\ ~rule3) => result.npc_action \in {"attack", "defend"}

\* the heal rule won over an element skill that was also available
C23_Witness ==
    /\ result # NoChoice
    /\ result.npc_action = "heal"
    /\ HighStamina(arena[1]) /\ arena[1].stamina >= 15
    /\ get_element_effectiveness(arena[1].element, arena[2].element) >= 10

\* C24: calculate_damage returns an integer >= 1 for attack and element, for every
\* attacker and defender including attack or element power 0 and very large defense,
\* every element pair, crit or no crit, and every variance in [0.8, 1.2].
C24_DamageAtLeastOne ==
    result # NoDamage => result.damage \in Nat /\ result.damage >= 1

\* a hit with power 0 against defense 1000, at the lowest variance, came out as 1
C24_Witness ==
    /\ result # NoDamage
    /\ arena[1].attack = 0 /\ arena[2].defense = 1000
    /\ result.variance = 80 /\ ~result.is_critical
    /\ result.damage = 1

\* n / d rounded to the nearest integer, a tie to the even one (Python's round)
Round(n, d) ==
    LET q == n \div d
        r == n % d
    IN IF 2 * r > d THEN q + 1
       ELSE IF 2 * r < d THEN q
       ELSE IF q % 2 = 0 THEN q ELSE q + 1

\* max(1, base - defense * 0.5) * e * v * c of the last call, as a fraction over 20000
DamageValue ==
    LET base == IF result.action = "attack" THEN arena[1].attack
                ELSE arena[1].element_power
        e == IF result.action = "element"
             THEN get_element_effectiveness(arena[1].element, arena[2].element)
             ELSE 10
        c == IF result.is_critical THEN 15 ELSE 10
    IN Max(2, 2 * base - arena[2].defense) * e * result.variance * c

\* C25: for every input and pinned variance, calculate_damage equals
\* max(1, round(max(1, base - defense * 0.5) * e * v * c)); in particular element power
\* 30 against defense 20 with effectiveness 1.5, no crit and variance 1.0 gives 30.
C25_DamageIsRounded ==
    result # NoDamage => result.damage = Max(1, Round(DamageValue, 20000))

\* C26: for every ordered pair (A, B) of the 8 elements get_element_effectiveness(A, B)
\* agrees with Config.ELEMENTS: 1.5 when B is in A's strong_against set, 0.8 when B is
\* in A's weak_against set, and exactly 1.0 for every pair with no declared relation,
\* including A = B and element names not in the table.
C26_EffectivenessMatchesElements ==
    result # NoLookup =>
        LET A == arena[1].element
            B == arena[2].element
            strong == A \in DOMAIN ELEMENTS /\ B \in ELEMENTS[A].strong_against
            weak == A \in DOMAIN ELEMENTS /\ B \in ELEMENTS[A].weak_against
        IN /\ (strong /\ ~weak) => result.effectiveness = 15
           /\ (weak /\ ~strong) => result.effectiveness = 8
           /\ (strong /\ weak) => result.effectiveness \in {8, 15}
           /\ (~strong /\ ~weak) => result.effectiveness = 10

\* C27: for each consecutive pair X > Y of the element cycle of the help text,
\* get_element_effectiveness(X, Y) is 1.5.
C27_HelpCycleHolds ==
    result # NoLookup =>
        \A i \in 1..(Len(HelpCycle) - 1) :
            (arena[1].element = HelpCycle[i] /\ arena[2].element = HelpCycle[i + 1])
                => result.effectiveness = 15

\* C28: the critical-hit chance min(0.30, 0.10 + agility * 0.001) lies in [0.10, 0.30]
\* for every agility in 0..2000, is non-decreasing in agility, and equals 0.30 for
\* every agility >= 200.
C28_CritChanceClamped ==
    /\ \A i \in {1, 2} :
          result[i] # NoCrit =>
              /\ 100 <= result[i].chance /\ result[i].chance <= 300
              /\ arena[i].agility >= 200 => result[i].chance = 300
    /\ (result[1] # NoCrit /\ result[2] # NoCrit) => result[1].chance <= result[2].chance

\* the chance reaches the cap exactly between agility 199 and agility 200
C28_Witness ==
    /\ arena[1].agility = 199
    /\ result[1].chance = 299 /\ result[2].chance = 300
    /\ ~result[1].is_critical /\ result[2].is_critical

\* floor(base * m) for a multiplier m given in hundredths
FloorOfProduct(base, hundredths) == (base * hundredths) \div 100

\* C29: with diff = enemyLevel - playerLevel, calculate_xp_reward and
\* calculate_coin_reward equal max(1, floor(base * m)), where base is enemyLevel * 20
\* (xp) or enemyLevel * 10 (coins) and m is 1 + 0.15 * diff (xp) or 1 + 0.10 * diff
\* (coins) when diff > 0, max(0.1, 1 + 0.10 * diff) (xp) or max(0.2, 1 + 0.05 * diff)
\* (coins) when diff < -5, and 1 otherwise; both results are at least 1.
C29_RewardFormulas ==
    result # NoReward =>
        LET enemyLevel == arena[2].level
            diff == enemyLevel - arena[1].level
            m_xp == IF diff > 0 THEN 100 + 15 * diff
                    ELSE IF diff < -5 THEN Max(10, 100 + 10 * diff) ELSE 100
            m_coins == IF diff > 0 THEN 100 + 10 * diff
                       ELSE IF diff < -5 THEN Max(20, 100 + 5 * diff) ELSE 100
        IN /\ result.xp = Max(1, FloorOfProduct(enemyLevel * 20, m_xp))
           /\ result.coins = Max(1, FloorOfProduct(enemyLevel * 10, m_coins))
           /\ result.xp >= 1 /\ result.coins >= 1

\* the damage of a plain attack at the given crit outcome and variance, by the formula:
\* max(1, int(max(1, attack - defense * 0.5) * variance * crit))
PlainAttackDamage(attacker, defender, is_critical, variance) ==
    LET halves == Max(2, 2 * attacker.attack - defender.defense)
        crit == IF is_critical THEN 15 ELSE 10
    IN Max(1, (halves * variance * crit) \div 2000)

-----------------------------------------------------------------------------
(* Claims about the effects of single actions, joins, auto battles and the shop *)

\* C31: a heal performed when stamina >= 10 and hp < max_hp raises the actor's hp by
\* exactly min(level * 8 + 15, max_hp - hp), lowers the actor's stamina by exactly 10,
\* and leaves the target's hp and stamina unchanged.
C31_HealEffect ==
    [][\A i \in {1, 2} :
          ( /\ arena[i].stamina >= 10 /\ arena[i].hp < arena[i].max_hp
            /\ BattleCall(i, "heal", FALSE, 100) ) =>
              arena' = [arena EXCEPT
                           ![i].hp = arena[i].hp + Min(arena[i].level * 8 + 15,
                                                       arena[i].max_hp - arena[i].hp),
                           ![i].stamina = arena[i].stamina - 10]]_vars

\* a heal from hp 0 was limited by the level (1 * 8 + 15 = 23 of the 25 missing)
C31_Witness ==
    /\ result.actor # 0
    /\ result.log.text = "heals"
    /\ arena[result.actor].hp = 23
    /\ arena[result.actor].stamina = 10

\* the damage of an element skill at the given crit outcome and variance, by the formula:
\* max(1, int(max(1, element_power - defense * 0.5) * effectiveness * variance * crit))
ElementSkillDamage(attacker, defender, is_critical, variance) ==
    LET halves == Max(2, 2 * attacker.element_power - defender.defense)
        eff == get_element_effectiveness(attacker.element, defender.element)
        crit == IF is_critical THEN 15 ELSE 10
    IN Max(1, (halves * eff * variance * crit) \div 20000)

\* C32: an element skill performed with stamina >= 15 lowers the target's hp by
\* min(target hp, damage), lowers the actor's stamina by exactly 15 and leaves the
\* actor's hp and the target's stamina unchanged; a plain attack lowers the target's hp
\* by min(target hp, damage) and changes no stamina and no hp of the actor.
C32_ElementAndAttackEffect ==
    [][\A i \in {1, 2}, is_critical \in BOOLEAN, variance \in Variances :
          LET actor == arena[i]
              target == arena[3 - i]
          IN /\ (actor.stamina >= 15 /\ BattleCall(i, "element", is_critical, variance)) =>
                    arena' = [arena EXCEPT
                                 ![3 - i].hp = target.hp
                                     - Min(target.hp, ElementSkillDamage(actor, target,
                                                          is_critical, variance)),
                                 ![i].stamina = actor.stamina - 15]
             /\ BattleCall(i, "attack", is_critical, variance) =>
                    arena' = [arena EXCEPT
                                 ![3 - i].hp = target.hp
                                     - Min(target.hp, PlainAttackDamage(actor, target,
                                                          is_critical, variance))]]_vars

\* the weak combatant's element skill cost it 15 of its 20 stamina and took 1 of the
\* 25 hp of the other
C32_Witness ==
    /\ result.actor = 2
    /\ result.log.text = "uses element skill"
    /\ arena[2].stamina = 5
    /\ arena[1].hp = 24

\* the replies of a join that fails for a reason other than expiry
JoinRejections ==
    {"invalid_code", "no_character", "heal_first", "self_challenge",
     "challenger_unavailable"}

\* C33: a join attempt that fails for a reason other than expiry (unknown code, joiner
\* without a character or with hp <= 0, joiner is the challenger, challenger missing or
\* with hp <= 0) creates no battle session and leaves the challenge registry unchanged,
\* so the same code can still be joined until it expires.
C33_RejectedJoinKeepsChallenge ==
    [][\A h \in Procs :
          ( /\ reply' \in JoinRejections
            /\ \/ \E u \in Users, c \in Codes : JoinCheck(h, u, c, TRUE)
               \/ JoinCreate(h, TRUE) ) =>
              /\ active_challenges' = active_challenges
              /\ battles' = battles
              /\ active_battles' = active_battles]_vars

\* the challenger's own join was turned down and the challenge is still there, live
C33_Witness ==
    /\ reply = "self_challenge"
    /\ \E c \in Codes :
          /\ active_challenges[c] # None
          /\ now <= active_challenges[c].expires_at

\* C34: simulate_auto_battle plays at most 20 rounds (at most 40 actions, player1
\* before player2 in each round, a combatant with hp 0 never acting), stops at the
\* first defeat, and the 'turns' value it returns is between 1 and the 20-turn maximum.
C34_AutoBattleBounded ==
    /\ result.log_len <= 2 * 20
    /\ (result.last_actor # 0 /\ result.pc # "returned") =>
           is_alive(arena[1]) /\ is_alive(arena[2])
    /\ result.pc = "returned" => (1 <= result.turn /\ result.turn <= 20)

\* C35: for combatants that both start alive, the reported winner of
\* simulate_auto_battle is never a combatant whose hp is 0: if exactly one is alive
\* at the end it is the winner, and if both are alive after the turn cap the
\* winner's hp/max_hp ratio is greater than or equal to the other's.
C35_AutoWinnerAlive ==
    (result.pc = "returned" /\ result.started_alive) =>
        LET w == IF result.winner = "player1" THEN 1 ELSE 2
        IN /\ result.winner \in {"player1", "player2"}
           /\ is_alive(arena[w])
           /\ is_alive(arena[3 - w]) =>
                 arena[w].hp * arena[3 - w].max_hp >= arena[3 - w].hp * arena[w].max_hp

\* an auto battle of two combatants that started alive returns player2 as the
\* winner over a defeated player1
C35_Witness ==
    /\ result.pc = "returned"
    /\ result.started_alive
    /\ result.winner = "player2"
    /\ ~is_alive(arena[1])
    /\ is_alive(arena[2])

\* C36: a successful shop purchase charges exactly the item's price: the stored coins
\* after it are the coins before minus the price, coins never increase through a
\* purchase and never become negative, and a purchase is refused with no state
\* change when coins < price.
C36_PurchaseChargesPrice ==
    [][\A user_id \in Users, item_id \in DOMAIN SHOP_ITEMS :
          (Purchase(user_id, item_id) /\ db[user_id] # None) =>
              /\ db'[user_id].coins <= db[user_id].coins
              /\ db'[user_id].coins >= 0
              /\ reply' \in {"used", "purchased"} =>
                    db'[user_id].coins = db[user_id].coins - SHOP_ITEMS[item_id].price
              /\ db[user_id].coins < SHOP_ITEMS[item_id].price =>
                    db' = db /\ reply' = "not_enough_coins"]_vars

\* C37: execute_battle_action reports a winner if and only if the acting combatant's
\* action brought the target's hp from a positive value to 0: an action that deals no
\* damage (defend, heal, a failed heal or element skill, an unknown action) never
\* reports a winner, and every action that leaves the target at hp 0 reports one.
C37_WinnerIffDefeatingAction ==
    [][\A i \in {1, 2}, action \in Actions \cup {UnknownAction},
          is_critical \in BOOLEAN, variance \in Variances :
          BattleCall(i, action, is_critical, variance) =>
              /\ result'.winner # NoWinner <=>
                    (arena[3 - i].hp > 0 /\ arena'[3 - i].hp = 0)
              /\ arena'[3 - i].hp = arena[3 - i].hp => result'.winner = NoWinner]_vars

\* C38: for every NPC state with max_hp > 0 and max_stamina > 0, choose_npc_action
\* returns heal only with stamina >= 10 and hp < max_hp and element only with
\* stamina >= 15, so the turn it drives is never a "cannot heal" or "not enough
\* stamina" turn; and the call changes no field of the NPC or the target.
C38_NpcPolicyRespectsPreconditions ==
    [][\A random_choice \in RandomChoices :
          ( /\ ChooseCall(random_choice)
            /\ arena[1].max_hp > 0 /\ arena[1].max_stamina > 0 ) =>
              /\ result'.npc_action = "heal" =>
                    arena[1].stamina >= 10 /\ arena[1].hp < arena[1].max_hp
              /\ result'.npc_action = "element" => arena[1].stamina >= 15
              /\ \A is_critical \in BOOLEAN, variance \in Variances :
                    execute_battle_action(arena[1], arena[2], result'.npc_action,
                                          is_critical, variance).log.text
                        \notin {"cannot heal", "not enough stamina"}
              /\ arena' = arena]_vars

\* the policy chose the heal for an NPC at 29% hp with 13 stamina, and the element
\* skill is out of its reach
C38_Witness ==
    /\ result = [npc_action |-> "heal"]
    /\ arena[1].hp = 29
    /\ arena[1].stamina = 13

\* C39: starting from stored hp > 0, after any sequence of PvP actions, PvP settlements
\* (the loser is left with max(1, hp div 2)), purchases and level-ups every player's
\* stored hp is >= 1, so the hp <= 0 guards of challenge and join are never triggered.
C39_StoredHpPositive ==
    /\ \A u \in Users : db[u] # None => db[u].hp >= 1
    /\ reply # "heal_first"

\* a settlement has left a loser who entered the battle with 1 hp at 1 hp
C39_Witness ==
    \E u \in Users :
        /\ db[u] # None
        /\ db[u].battles_lost = 1
        /\ db[u].hp = 1

====
